---------------------------- MODULE Spec2Model ----------------------------
(***************************************************************************)
(* Model of the search engine of sheets_search.py: value and header        *)
(* normalisation, the wildcard ignore filter, header detection, column     *)
(* resolution, the cell matcher, the companion ("stawka") lookup and the   *)
(* lazy, cancellable generators search_in_sheet, search_in_spreadsheet,    *)
(* search_across_spreadsheets and search_in_spreadsheets.                  *)
(*                                                                         *)
(* Text is a sequence of one-character strings.  Three characters that do  *)
(* not fit the module's character set are written as names: "NBSP"         *)
(* (U+00A0), "NNBSP" (U+202F) and "l-stroke" (U+0142).                      *)
(* A cell value is a record [t, ...]: t = "none" (Python None),            *)
(* t = "str" (field s, the text), t = "int" or t = "float" (field n, the   *)
(* integral value; a float of this model has a zero fraction).             *)
(* An optional index is an integer, NoIdx standing for Python's None.      *)
(***************************************************************************)
EXTENDS Integers, Sequences, FiniteSets, TLC

(***************************************************************************)
(* Python text primitives used by the module.                              *)
(***************************************************************************)
Digits == <<"0", "1", "2", "3", "4", "5", "6", "7", "8", "9">>

UpperCase == <<"A", "B", "C", "D", "E", "F", "G", "H", "I", "J", "K", "L", "M",
               "N", "O", "P", "Q", "R", "S", "T", "U", "V", "W", "X", "Y", "Z",
               "L-STROKE">>

LowerCase == <<"a", "b", "c", "d", "e", "f", "g", "h", "i", "j", "k", "l", "m",
               "n", "o", "p", "q", "r", "s", "t", "u", "v", "w", "x", "y", "z",
               "l-stroke">>

ToLower == [c \in {UpperCase[i] : i \in DOMAIN UpperCase} |->
              LowerCase[CHOOSE i \in DOMAIN UpperCase : UpperCase[i] = c]]

\* str.isspace() of one character
IsSpace(c) == c \in {" ", "TAB", "NBSP", "NNBSP"}

\* the regular expression class \d
IsDigit(c) == c \in {Digits[i] : i \in DOMAIN Digits}

\* str.lower()
py_lower(s) == [i \in 1..Len(s) |-> IF s[i] \in DOMAIN ToLower THEN ToLower[s[i]] ELSE s[i]]

\* sub in s
py_in(sub, s) == \E i \in 1..(Len(s) - Len(sub) + 1) : SubSeq(s, i, i + Len(sub) - 1) = sub

\* s.startswith(p)
py_startswith(s, p) == Len(p) <= Len(s) /\ SubSeq(s, 1, Len(p)) = p

\* s.endswith(p)
py_endswith(s, p) == Len(p) <= Len(s) /\ SubSeq(s, Len(s) - Len(p) + 1, Len(s)) = p

\* s.replace(a, b) for a one-character a; b is a text (possibly empty)
RECURSIVE py_replace(_, _, _)
py_replace(s, a, b) ==
    IF s = <<>> THEN <<>>
    ELSE (IF Head(s) = a THEN b ELSE <<Head(s)>>) \o py_replace(Tail(s), a, b)

\* s.strip()
py_strip(s) ==
    LET keep == {i \in 1..Len(s) : ~IsSpace(s[i])}
    IN  IF keep = {} THEN <<>>
        ELSE SubSeq(s, CHOOSE i \in keep : \A j \in keep : i <= j,
                       CHOOSE i \in keep : \A j \in keep : j <= i)

\* s.split(): the maximal runs of non-whitespace characters, left to right
RECURSIVE py_split(_)
py_split(s) ==
    LET starts == {i \in 1..Len(s) : ~IsSpace(s[i])}
    IN  IF starts = {} THEN <<>>
        ELSE LET b == CHOOSE i \in starts : \A j \in starts : i <= j
                 stops == {i \in b..Len(s) : IsSpace(s[i])}
                 e == IF stops = {} THEN Len(s) + 1
                      ELSE CHOOSE i \in stops : \A j \in stops : i <= j
             IN  <<SubSeq(s, b, e - 1)>> \o py_split(SubSeq(s, e, Len(s)))

\* sep.join(parts)
RECURSIVE py_join(_, _)
py_join(sep, parts) ==
    IF parts = <<>> THEN <<>>
    ELSE IF Len(parts) = 1 THEN parts[1]
    ELSE parts[1] \o sep \o py_join(sep, Tail(parts))

\* str(n) of a non-negative integer
RECURSIVE NatDigits(_)
NatDigits(n) == IF n < 10 THEN <<Digits[n + 1]>> ELSE NatDigits(n \div 10) \o <<Digits[(n % 10) + 1]>>

(***************************************************************************)
(* Cell values.                                                            *)
(***************************************************************************)
None == [t |-> "none"]
Str(s) == [t |-> "str", s |-> s]
IntVal(n) == [t |-> "int", n |-> n]
FloatVal(n) == [t |-> "float", n |-> n]

NoIdx == -1

\* str(value)
py_str(v) ==
    CASE v.t = "str" -> v.s
      [] v.t = "int" -> IF v.n < 0 THEN <<"-">> \o NatDigits(-v.n) ELSE NatDigits(v.n)
      [] v.t = "float" -> (IF v.n < 0 THEN <<"-">> \o NatDigits(-v.n) ELSE NatDigits(v.n)) \o <<".", "0">>
      [] OTHER -> <<"N", "o", "n", "e">>

\* Faulty variant of normalize_number_string: the comma is dropped like a
\* space instead of becoming a dot.
normalize_dropping_commas(value) ==
    IF value.t = "none" THEN <<>>
    ELSE SelectSeq(py_str(value), LAMBDA c : IsDigit(c) \/ c = "." \/ c = "-")

(***************************************************************************)
(* Value normaliser.                                                       *)
(***************************************************************************)
normalize_number_string(value) ==
    IF value.t = "none" THEN <<>>
    ELSE LET s0 == py_str(value)
             s1 == py_replace(py_replace(s0, "NBSP", <<>>), "NNBSP", <<>>)
             s2 == py_replace(s1, " ", <<>>)
             s3 == py_replace(s2, ",", <<".">>)
         IN  SelectSeq(s3, LAMBDA c : IsDigit(c) \/ c = "." \/ c = "-")

\* Faulty variant of normalize_header_name: the underscores are replaced after
\* the whitespace was collapsed, and the result is not stripped.
normalize_header_name_underscore_last(name) ==
    IF name.t = "none" THEN <<>>
    ELSE py_lower(py_replace(py_join(<<" ">>, py_split(py_str(name))), "_", <<" ">>))

normalize_header_name(name) ==
    IF name.t = "none" THEN <<>>
    ELSE LET s0 == py_str(name)
             s1 == py_replace(s0, "_", <<" ">>)
             s2 == py_join(<<" ">>, py_split(s1))
         IN  py_lower(py_strip(s2))


(***************************************************************************)
(* Header vocabularies of the module.                                      *)
(***************************************************************************)
ZLECENIE_HEADERS ==
    << <<"n","u","m","e","r"," ","z","l","e","c","e","n","i","a">>,
       <<"n","r"," ","z","l","e","c","e","n","i","a">>,
       <<"n","r","_","z","l","e","c","e","n","i","a">>,
       <<"z","l","e","c","e","n","i","e">>,
       <<"n","r"," ","z">> >>

STAWKA_HEADERS ==
    << <<"s","t","a","w","k","a">>,
       <<"s","t","a","w","k","a"," ","z","l-stroke">>,
       <<"s","t","a","w","k","a","_","p","l","n">>,
       <<"s","t","a","w","k","a"," ","n","e","t","t","o">>,
       <<"s","t","a","w","k","a","_","b","r","u","t","t","o">> >>

COLUMN_BLACKLIST ==
    << <<"t","r","a","n","s","p","o","r","t">>,
       <<"u","w","a","g","i">>,
       <<"k","o","m","e","n","t","a","r","z">>,
       <<"k","o","m","e","n","t","a","r","z","e">>,
       <<"n","o","t","a","t","k","i">>,
       <<"o","p","i","s">>,
       <<"u","w","a","g","a">> >>

ALL_COLUMNS_VALUES == << <<"a","l","l">>, <<"w","s","z","y","s","t","k","i","e">> >>

\* x in lst, for a list of texts
InList(x, lst) == \E i \in DOMAIN lst : lst[i] = x

\* any(variant in text for variant in lst)
AnyVariantIn(lst, text) == \E i \in DOMAIN lst : py_in(lst[i], text)

\* the least element of a non-empty set of integers
MinOf(S) == CHOOSE x \in S : \A y \in S : x <= y

(***************************************************************************)
(* A1 addresses.                                                           *)
(***************************************************************************)
RECURSIVE col_index_to_a1_loop(_, _)
col_index_to_a1_loop(n, s) ==
    IF n > 0 THEN col_index_to_a1_loop((n - 1) \div 26, <<UpperCase[((n - 1) % 26) + 1]>> \o s)
    ELSE s

col_index_to_a1(n) == IF n = NoIdx \/ n < 0 THEN <<"?">> ELSE col_index_to_a1_loop(n + 1, <<>>)

cell_address(row_idx, col_idx) ==
    IF row_idx = NoIdx THEN col_index_to_a1(col_idx) \o <<"?">>
    ELSE col_index_to_a1(col_idx) \o NatDigits(row_idx + 1)

(***************************************************************************)
(* Numeric tokens of a text: the leftmost, non-overlapping matches of      *)
(* \d+(?:[.,]\d+)?                                                         *)
(***************************************************************************)
\* the index after the maximal run of digits of s that starts at i
RECURSIVE DigitRunEnd(_, _)
DigitRunEnd(s, i) == IF i <= Len(s) /\ IsDigit(s[i]) THEN DigitRunEnd(s, i + 1) ELSE i

RECURSIVE FindAllNumeric(_, _)
FindAllNumeric(s, i) ==
    IF i > Len(s) THEN <<>>
    ELSE IF ~IsDigit(s[i]) THEN FindAllNumeric(s, i + 1)
    ELSE LET j == DigitRunEnd(s, i)
             k == IF j + 1 <= Len(s) /\ s[j] \in {".", ","} /\ IsDigit(s[j + 1])
                  THEN DigitRunEnd(s, j + 1) ELSE j
         IN  <<SubSeq(s, i, k - 1)>> \o FindAllNumeric(s, k)

\* Faulty variant of extract_numeric_tokens: the tokens are the runs of
\* digits, a separator between two runs is never part of a token.
RECURSIVE extract_digit_runs_only(_)
extract_digit_runs_only(text) ==
    IF text = <<>> THEN <<>>
    ELSE IF ~IsDigit(text[1]) THEN extract_digit_runs_only(Tail(text))
    ELSE <<SubSeq(text, 1, DigitRunEnd(text, 1) - 1)>>
            \o extract_digit_runs_only(SubSeq(text, DigitRunEnd(text, 1), Len(text)))

extract_numeric_tokens(text) == IF text = <<>> THEN <<>> ELSE FindAllNumeric(text, 1)

is_search_all_columns(search_column_name) ==
    IF search_column_name.t = "none" THEN FALSE
    ELSE InList(normalize_header_name(search_column_name), ALL_COLUMNS_VALUES)

(***************************************************************************)
(* Wildcard matcher (ignore filter).  ignore_patterns is a list of texts;  *)
(* None and the empty list are both the empty sequence.                    *)
(***************************************************************************)
matches_ignore_pattern(header_name, ignore_patterns) ==
    IF ignore_patterns = <<>> THEN FALSE
    ELSE LET normalized_header == normalize_header_name(Str(header_name))
         IN  IF normalized_header = <<>> THEN FALSE
             ELSE \E k \in DOMAIN ignore_patterns :
                    LET pattern == py_lower(py_strip(ignore_patterns[k]))
                    IN  /\ pattern # <<>>
                        /\ IF py_startswith(pattern, <<"*">>) /\ py_endswith(pattern, <<"*">>)
                           THEN LET search_term == SubSeq(pattern, 2, Len(pattern) - 1)
                                IN  search_term # <<>> /\ py_in(search_term, normalized_header)
                           ELSE IF py_startswith(pattern, <<"*">>)
                           THEN LET search_term == SubSeq(pattern, 2, Len(pattern))
                                IN  search_term # <<>> /\ py_endswith(normalized_header, search_term)
                           ELSE IF py_endswith(pattern, <<"*">>)
                           THEN LET search_term == SubSeq(pattern, 1, Len(pattern) - 1)
                                IN  search_term # <<>> /\ py_startswith(normalized_header, search_term)
                           ELSE py_in(pattern, normalized_header)

\* Faulty variant of matches_ignore_value: a pattern without '*' has to be the
\* whole value.
matches_ignore_value_exact(cell_value, ignore_patterns) ==
    /\ ignore_patterns # <<>>
    /\ py_strip(cell_value) # <<>>
    /\ \E k \in DOMAIN ignore_patterns :
          LET pattern == py_lower(py_strip(ignore_patterns[k]))
              value == py_lower(py_strip(cell_value))
          IN  /\ pattern # <<>>
              /\ IF py_startswith(pattern, <<"*">>) /\ py_endswith(pattern, <<"*">>)
                 THEN Len(pattern) > 2 /\ py_in(SubSeq(pattern, 2, Len(pattern) - 1), value)
                 ELSE IF py_startswith(pattern, <<"*">>)
                 THEN py_endswith(value, SubSeq(pattern, 2, Len(pattern)))
                 ELSE IF py_endswith(pattern, <<"*">>)
                 THEN py_startswith(value, SubSeq(pattern, 1, Len(pattern) - 1))
                 ELSE pattern = value

matches_ignore_value(cell_value, ignore_patterns) ==
    IF ignore_patterns = <<>> THEN FALSE
    ELSE IF cell_value = <<>> THEN FALSE
    ELSE LET normalized_value == py_lower(py_strip(cell_value))
         IN  IF normalized_value = <<>> THEN FALSE
             ELSE \E k \in DOMAIN ignore_patterns :
                    LET pattern == py_lower(py_strip(ignore_patterns[k]))
                    IN  /\ pattern # <<>>
                        /\ IF py_startswith(pattern, <<"*">>) /\ py_endswith(pattern, <<"*">>)
                           THEN LET search_term == SubSeq(pattern, 2, Len(pattern) - 1)
                                IN  search_term # <<>> /\ py_in(search_term, normalized_value)
                           ELSE IF py_startswith(pattern, <<"*">>)
                           THEN LET search_term == SubSeq(pattern, 2, Len(pattern))
                                IN  search_term # <<>> /\ py_endswith(normalized_value, search_term)
                           ELSE IF py_endswith(pattern, <<"*">>)
                           THEN LET search_term == SubSeq(pattern, 1, Len(pattern) - 1)
                                IN  search_term # <<>> /\ py_startswith(normalized_value, search_term)
                           ELSE py_in(pattern, normalized_value)

(***************************************************************************)
(* Header rows.  A header row is a sequence of cell values; a header row   *)
(* that is None is the empty sequence (every use tests `not header_row`    *)
(* or indexes within bounds).  Column indices are 0-based, as in the code. *)
(***************************************************************************)
\* re.match(r'^[\d\.\,\-\s]+$', cell_str) for a stripped, non-empty cell_str
OnlyNumberPunctuation(cell_str) ==
    \A i \in 1..Len(cell_str) : IsDigit(cell_str[i]) \/ cell_str[i] \in {".", ",", "-"} \/ IsSpace(cell_str[i])

is_likely_header_row(row) ==
    LET text_cells == {i \in DOMAIN row :
                         /\ row[i].t # "none"
                         /\ LET cell_str == py_strip(py_str(row[i]))
                            IN  cell_str # <<>> /\ ~OnlyNumberPunctuation(cell_str)}
    IN  Cardinality(text_cells) >= 2

\* (zlecenie_idx, stawka_idx) as a record
find_header_indices(header_row) ==
    LET Hit(lst) == {i \in DOMAIN header_row :
                       /\ header_row[i].t # "none"
                       /\ AnyVariantIn(lst, py_strip(py_lower(py_str(header_row[i]))))}
    IN  [zlecenie_idx |-> IF Hit(ZLECENIE_HEADERS) = {} THEN NoIdx ELSE MinOf(Hit(ZLECENIE_HEADERS)) - 1,
         stawka_idx |-> IF Hit(STAWKA_HEADERS) = {} THEN NoIdx ELSE MinOf(Hit(STAWKA_HEADERS)) - 1]

\* `not column_name` for an optional text
IsBlankName(column_name) == column_name.t = "none" \/ py_str(column_name) = <<>>

find_column_index_by_name(header_row, column_name) ==
    IF header_row = <<>> \/ IsBlankName(column_name) THEN NoIdx
    ELSE LET norm_target == normalize_header_name(column_name)
             hit == {i \in DOMAIN header_row :
                       header_row[i].t # "none" /\ normalize_header_name(header_row[i]) = norm_target}
         IN  IF hit = {} THEN NoIdx ELSE MinOf(hit) - 1

\* Faulty variant of find_all_column_indices_by_name: only the first column
\* of that name is returned, as find_column_index_by_name would.
find_first_column_only(header_row, column_name, ignore_patterns) ==
    IF find_column_index_by_name(header_row, column_name) = NoIdx THEN <<>>
    ELSE <<find_column_index_by_name(header_row, column_name)>>

\* Faulty variant of find_all_column_indices_by_name: the columns come back
\* right to left.
find_all_columns_descending(header_row, column_name, ignore_patterns) ==
    IF header_row = <<>> \/ IsBlankName(column_name) THEN <<>>
    ELSE SelectSeq([i \in 1..Len(header_row) |-> Len(header_row) - i], LAMBDA idx :
            /\ header_row[idx + 1].t # "none"
            /\ normalize_header_name(header_row[idx + 1]) = normalize_header_name(column_name)
            /\ ~(ignore_patterns # <<>>
                 /\ matches_ignore_pattern(py_str(header_row[idx + 1]), ignore_patterns)))

find_all_column_indices_by_name(header_row, column_name, ignore_patterns) ==
    IF header_row = <<>> \/ IsBlankName(column_name) THEN <<>>
    ELSE LET norm_target == normalize_header_name(column_name)
             indices == [i \in 1..Len(header_row) |-> i - 1]
         IN  SelectSeq(indices, LAMBDA idx :
                /\ header_row[idx + 1].t # "none"
                /\ normalize_header_name(header_row[idx + 1]) = norm_target
                /\ ~(ignore_patterns # <<>>
                     /\ matches_ignore_pattern(py_str(header_row[idx + 1]), ignore_patterns)))

find_stawka_column_index(header_row) ==
    LET hit == {i \in DOMAIN header_row :
                  /\ header_row[i].t # "none"
                  /\ AnyVariantIn(STAWKA_HEADERS, normalize_header_name(header_row[i]))}
    IN  IF hit = {} THEN NoIdx ELSE MinOf(hit) - 1

\* Optional[str]: None, or Str(text)
get_cell_value_safe(row, idx) ==
    IF idx = NoIdx \/ idx < 0 THEN None
    ELSE IF idx >= Len(row) THEN None
    ELSE IF row[idx + 1].t = "none" THEN None
    ELSE Str(py_str(row[idx + 1]))

\* Faulty variant of is_column_blacklisted: no header is on the blacklist.
never_blacklisted(header_row, col_idx) == FALSE

is_column_blacklisted(header_row, col_idx) ==
    IF col_idx = NoIdx THEN FALSE
    ELSE IF col_idx < 0 \/ col_idx >= Len(header_row) THEN FALSE
    ELSE IF header_row[col_idx + 1].t = "none" THEN FALSE
    ELSE AnyVariantIn(COLUMN_BLACKLIST, py_strip(py_lower(py_str(header_row[col_idx + 1]))))

(***************************************************************************)
(* Header detection.  values is the grid: a sequence of rows.              *)
(* header_row_indices is a list of 0-based row indices; None and the empty *)
(* list are both the empty sequence.                                       *)
(***************************************************************************)
\* max() of a non-empty list of integers
MaxOfSeq(lst) == CHOOSE x \in {lst[i] : i \in DOMAIN lst} : \A i \in DOMAIN lst : lst[i] <= x

combine_header_values(values, header_row_indices) ==
    IF values = <<>> \/ header_row_indices = <<>> THEN <<>>
    ELSE LET InBounds(row_idx) == row_idx >= 0 /\ row_idx < Len(values)
             widths == {Len(values[header_row_indices[k] + 1]) :
                          k \in {k \in DOMAIN header_row_indices : InBounds(header_row_indices[k])}}
             max_cols == IF widths = {} THEN 0 ELSE CHOOSE w \in widths : \A v \in widths : v <= w
             Part(row_idx, col_idx) ==
                 IF /\ InBounds(row_idx)
                    /\ col_idx < Len(values[row_idx + 1])
                    /\ values[row_idx + 1][col_idx + 1].t # "none"
                 THEN py_strip(py_str(values[row_idx + 1][col_idx + 1]))
                 ELSE <<>>
             col_parts(col_idx) ==
                 SelectSeq([k \in DOMAIN header_row_indices |-> Part(header_row_indices[k], col_idx)],
                           LAMBDA part : part # <<>>)
         IN  [c \in 1..max_cols |-> Str(normalize_header_name(Str(py_join(<<" ">>, col_parts(c - 1)))))]

\* Faulty variant of detect_header_row: with explicit header rows the data
\* start below the row listed last, not below the lowest one.
detect_header_row_below_last_listed(values, search_column_name, header_row_indices) ==
    IF values # <<>> /\ header_row_indices # <<>>
       /\ combine_header_values(values, header_row_indices) # <<>>
    THEN [header_row_idx |-> header_row_indices,
          header_row |-> combine_header_values(values, header_row_indices),
          start_data_row |-> header_row_indices[Len(header_row_indices)] + 1]
    ELSE IF values = <<>> THEN [header_row_idx |-> <<>>, header_row |-> <<>>, start_data_row |-> 0]
    ELSE IF is_likely_header_row(values[1])
    THEN [header_row_idx |-> <<0>>, header_row |-> values[1], start_data_row |-> 1]
    ELSE [header_row_idx |-> <<>>, header_row |-> <<>>, start_data_row |-> 0]

\* Faulty variant of detect_header_row: a first row that looks like a header
\* is the header, the second row is looked at only when the first does not.
detect_header_row_first_row_wins(values, search_column_name, header_row_indices) ==
    IF values = <<>> THEN [header_row_idx |-> <<>>, header_row |-> <<>>, start_data_row |-> 0]
    ELSE IF header_row_indices # <<>> /\ combine_header_values(values, header_row_indices) # <<>>
    THEN [header_row_idx |-> header_row_indices,
          header_row |-> combine_header_values(values, header_row_indices),
          start_data_row |-> MaxOfSeq(header_row_indices) + 1]
    ELSE IF is_likely_header_row(values[1])
    THEN [header_row_idx |-> <<0>>, header_row |-> values[1], start_data_row |-> 1]
    ELSE IF Len(values) > 1 /\ is_likely_header_row(values[2])
    THEN [header_row_idx |-> <<1>>, header_row |-> values[2], start_data_row |-> 2]
    ELSE [header_row_idx |-> <<>>, header_row |-> <<>>, start_data_row |-> 0]

\* Faulty variant of detect_header_row: the second row is the header only
\* when it holds the column looked for.
detect_header_row_second_row_needs_target(values, search_column_name, header_row_indices) ==
    LET has_target(row) ==
            IF search_column_name.t # "none" /\ ~is_search_all_columns(search_column_name)
               /\ ~IsBlankName(search_column_name)
            THEN find_column_index_by_name(row, search_column_name) # NoIdx
            ELSE find_header_indices(row).zlecenie_idx # NoIdx
    IN  IF values = <<>> THEN [header_row_idx |-> <<>>, header_row |-> <<>>, start_data_row |-> 0]
        ELSE IF header_row_indices # <<>> /\ combine_header_values(values, header_row_indices) # <<>>
        THEN [header_row_idx |-> header_row_indices,
              header_row |-> combine_header_values(values, header_row_indices),
              start_data_row |-> MaxOfSeq(header_row_indices) + 1]
        ELSE IF is_likely_header_row(values[1]) /\ has_target(values[1])
        THEN [header_row_idx |-> <<0>>, header_row |-> values[1], start_data_row |-> 1]
        ELSE IF Len(values) > 1 /\ is_likely_header_row(values[2]) /\ has_target(values[2])
        THEN [header_row_idx |-> <<1>>, header_row |-> values[2], start_data_row |-> 2]
        ELSE IF is_likely_header_row(values[1])
        THEN [header_row_idx |-> <<0>>, header_row |-> values[1], start_data_row |-> 1]
        ELSE [header_row_idx |-> <<>>, header_row |-> <<>>, start_data_row |-> 0]

\* the tuple (header_row_idx, header_row, start_data_row); header_row_idx and
\* header_row are empty for None
detect_header_row(values, search_column_name, header_row_indices) ==
    LET no_header == [header_row_idx |-> <<>>, header_row |-> <<>>, start_data_row |-> 0]
        combined_headers == combine_header_values(values, header_row_indices)
        row1 == IF Len(values) > 0 THEN values[1] ELSE <<>>
        row2 == IF Len(values) > 1 THEN values[2] ELSE <<>>
        target_column == IF search_column_name.t # "none" /\ ~is_search_all_columns(search_column_name)
                         THEN search_column_name ELSE None
        check_row_has_target(row) ==
            IF row = <<>> THEN FALSE
            ELSE IF ~IsBlankName(target_column)
                 THEN find_column_index_by_name(row, target_column) # NoIdx
                 ELSE find_header_indices(row).zlecenie_idx # NoIdx
        in_row1 == [header_row_idx |-> <<0>>, header_row |-> row1, start_data_row |-> 1]
        in_row2 == [header_row_idx |-> <<1>>, header_row |-> row2, start_data_row |-> 2]
    IN  IF values = <<>> THEN no_header
        ELSE IF header_row_indices # <<>> /\ combined_headers # <<>>
        THEN [header_row_idx |-> header_row_indices, header_row |-> combined_headers,
              start_data_row |-> MaxOfSeq(header_row_indices) + 1]
        ELSE IF is_likely_header_row(row1)
        THEN (IF check_row_has_target(row1) THEN in_row1
              ELSE IF is_likely_header_row(row2) /\ check_row_has_target(row2) THEN in_row2
              ELSE in_row1)
        ELSE IF is_likely_header_row(row2) THEN in_row2
        ELSE no_header

(***************************************************************************)
(* The user's regular expression.  The modelled dialect is: an optional    *)
(* leading "^", then literal characters and "." (any character); a         *)
(* pattern with an unbalanced parenthesis does not compile (re.error).     *)
(* Queries of the model use no other operator of the re module.            *)
(***************************************************************************)
CountChar(s, c) == Cardinality({i \in DOMAIN s : s[i] = c})

\* whether re.compile(pattern) returns (TRUE) or raises re.error (FALSE)
re_compiles(pattern) == CountChar(pattern, "(") = CountChar(pattern, ")")

\* matcher.search(text) is not None
re_search(pattern, ignorecase, text) ==
    LET anchored == pattern # <<>> /\ pattern[1] = "^"
        body == IF anchored THEN Tail(pattern) ELSE pattern
        p == IF ignorecase THEN py_lower(body) ELSE body
        s == IF ignorecase THEN py_lower(text) ELSE text
        MatchAt(i) == \A k \in 1..Len(p) : p[k] = "." \/ p[k] = s[i + k - 1]
    IN  \E i \in (IF anchored THEN {1} ELSE 1..(Len(s) + 1)) :
           i + Len(p) - 1 <= Len(s) /\ MatchAt(i)

HasDigit(s) == \E i \in DOMAIN s : IsDigit(s[i])

\* Faulty variant of check_match: the substring / regex step alone, without
\* the numeric fallback.
check_match_without_numeric_fallback(cell_text, pattern, regex, case_sensitive) ==
    IF regex THEN re_search(pattern, ~case_sensitive, cell_text)
    ELSE /\ pattern # <<>>
         /\ cell_text # <<>>
         /\ IF case_sensitive THEN py_in(pattern, cell_text)
            ELSE py_in(py_lower(pattern), py_lower(cell_text))

(***************************************************************************)
(* The cell matcher of search_in_sheet.                                    *)
(***************************************************************************)
\* the normalized pattern, computed once before the scan
norm_pat_of(pattern) ==
    IF HasDigit(pattern) THEN normalize_number_string(Str(pattern)) ELSE <<>>

\* steps 1 and 2: the regular expression, or the plain substring
direct_match(cell_text, pattern, regex, case_sensitive) ==
    IF regex
    THEN re_search(pattern, ~case_sensitive, cell_text)
    ELSE /\ pattern # <<>>
         /\ cell_text # <<>>
         /\ IF case_sensitive THEN py_in(pattern, cell_text)
            ELSE py_in(py_lower(pattern), py_lower(cell_text))

\* step 3: the normalized pattern inside the normalized cell
numeric_match(cell_text, pattern) ==
    /\ HasDigit(pattern)
    /\ HasDigit(cell_text)
    /\ norm_pat_of(pattern) # <<>>
    /\ py_in(norm_pat_of(pattern), normalize_number_string(Str(cell_text)))

\* step 4: the normalized pattern inside a numeric token of a cell with a URL
url_token_match(cell_text, pattern) ==
    LET cell_text_lower == py_lower(cell_text)
        numeric_tokens == extract_numeric_tokens(cell_text)
    IN  /\ HasDigit(pattern)
        /\ \/ py_in(<<"h","t","t","p",":","/","/">>, cell_text_lower)
           \/ py_in(<<"h","t","t","p","s",":","/","/">>, cell_text_lower)
           \/ py_in(<<"w","w","w",".">>, cell_text_lower)
        /\ \E k \in DOMAIN numeric_tokens :
              /\ norm_pat_of(pattern) # <<>>
              /\ py_in(norm_pat_of(pattern),
                       normalize_number_string(Str(numeric_tokens[k])))

\* Faulty variant of check_match: a cell with a URL is left to the token step,
\* the normalized whole cell is compared for the other cells only.
check_match_urls_by_token_only(cell_text, pattern, regex, case_sensitive) ==
    LET cell_text_lower == py_lower(cell_text)
        has_url == \/ py_in(<<"h","t","t","p",":","/","/">>, cell_text_lower)
                   \/ py_in(<<"h","t","t","p","s",":","/","/">>, cell_text_lower)
                   \/ py_in(<<"w","w","w",".">>, cell_text_lower)
    IN  \/ direct_match(cell_text, pattern, regex, case_sensitive)
        \/ ~has_url /\ numeric_match(cell_text, pattern)
        \/ url_token_match(cell_text, pattern)

\* Faulty variant of check_match: the regular expression is always compiled
\* with re.IGNORECASE.
check_match_regex_ignoring_case(cell_text, pattern, regex, case_sensitive) ==
    \/ direct_match(cell_text, pattern, regex, case_sensitive /\ ~regex)
    \/ numeric_match(cell_text, pattern)
    \/ url_token_match(cell_text, pattern)

check_match(cell_text, pattern, regex, case_sensitive) ==
    \/ direct_match(cell_text, pattern, regex, case_sensitive)
    \/ numeric_match(cell_text, pattern)
    \/ url_token_match(cell_text, pattern)

\* the inline matcher of search_in_spreadsheets (no URL step)
legacy_match(cell_text, pattern, regex, case_sensitive) ==
    LET pattern_has_digits == HasDigit(pattern)
        norm_pat == IF pattern_has_digits THEN normalize_number_string(Str(pattern)) ELSE <<>>
        step12 == IF regex
                  THEN re_search(pattern, ~case_sensitive, cell_text)
                  ELSE /\ pattern # <<>>
                       /\ cell_text # <<>>
                       /\ IF case_sensitive THEN py_in(pattern, cell_text)
                          ELSE py_in(py_lower(pattern), py_lower(cell_text))
        step3 == /\ pattern_has_digits
                 /\ HasDigit(cell_text)
                 /\ norm_pat # <<>>
                 /\ py_in(norm_pat, normalize_number_string(Str(cell_text)))
    IN  step12 \/ step3

(***************************************************************************)
(* search_in_sheet: column resolution, companion value and the per-cell    *)
(* step of the two scanning loops.                                         *)
(***************************************************************************)
\* lines 1104-1126: the columns to scan once the header and the candidates are known
resolve_columns(base, search_column_name, ignore_patterns, named, zlecenie_idx) ==
    IF ~base.search_all /\ search_column_name.t # "none"
    THEN (IF named = <<>> THEN [base EXCEPT !.skip = TRUE]
          ELSE [base EXCEPT !.target_col_indices = named])
    ELSE IF search_column_name.t = "none"
    THEN (IF zlecenie_idx = NoIdx THEN [base EXCEPT !.skip = TRUE]
          ELSE IF /\ base.header_row # <<>>
                  /\ ignore_patterns # <<>>
                  /\ matches_ignore_pattern(py_str(base.header_row[zlecenie_idx + 1]), ignore_patterns)
          THEN [base EXCEPT !.skip = TRUE]
          ELSE [base EXCEPT !.target_col_indices = <<zlecenie_idx>>])
    ELSE base

\* lines 1099-1126 for the header d that detect_header_row found
resolve_header(d, search_column_name, ignore_patterns) ==
    resolve_columns(
        [skip |-> FALSE, header_row |-> d.header_row, start_row |-> d.start_data_row,
         stawka_idx |-> IF d.header_row # <<>> THEN find_stawka_column_index(d.header_row)
                        ELSE NoIdx,
         search_all |-> is_search_all_columns(search_column_name),
         target_col_indices |-> <<>>],
        search_column_name, ignore_patterns,
        IF d.header_row # <<>>
        THEN find_all_column_indices_by_name(d.header_row, search_column_name, ignore_patterns)
        ELSE <<>>,
        IF d.header_row # <<>> THEN find_header_indices(d.header_row).zlecenie_idx ELSE NoIdx)

\* lines 1096-1126: [skip, header_row, start_row, stawka_idx, search_all, target_col_indices]
resolve_sheet(values, search_column_name, ignore_patterns, header_row_indices) ==
    resolve_header(detect_header_row(values, search_column_name, header_row_indices),
                   search_column_name, ignore_patterns)

\* `x or ""` for an Optional[str]
OrEmpty(v) == IF v.t = "none" THEN <<>> ELSE v.s

\* Faulty variant of get_stawka_for_row: the right-hand neighbour is taken even
\* when the sheet has a rate column.
stawka_from_right_neighbour(row, match_col_idx, stawka_idx, header_row) ==
    IF is_column_blacklisted(header_row, match_col_idx + 1) THEN <<>>
    ELSE OrEmpty(get_cell_value_safe(row, match_col_idx + 1))

get_stawka_for_row(row, match_col_idx, stawka_idx, header_row) ==
    IF stawka_idx # NoIdx THEN OrEmpty(get_cell_value_safe(row, stawka_idx))
    ELSE IF is_column_blacklisted(header_row, match_col_idx + 1) THEN <<>>
    ELSE OrEmpty(get_cell_value_safe(row, match_col_idx + 1))

\* Faulty variant of scan_text: a value on the ignore list is reported, with an
\* empty searchedValue, instead of being left out.
scan_text_blanking_ignored(row, col_idx, cell_text, f, a) ==
    IF check_match(cell_text, a.pattern, a.regex, a.case_sensitive)
    THEN [hit |-> TRUE, col |-> col_idx,
          value |-> IF a.ignore_patterns # <<>>
                       /\ matches_ignore_value(cell_text, a.ignore_patterns)
                    THEN <<>> ELSE cell_text,
          stawka |-> get_stawka_for_row(row, col_idx, f.stawka_idx, f.header_row)]
    ELSE [hit |-> FALSE, col |-> col_idx, value |-> cell_text, stawka |-> <<>>]

\* lines 1203-1218 / 1238-1255 for the text of a cell: [hit, col, value, stawka]
scan_text(row, col_idx, cell_text, f, a) ==
    IF /\ check_match(cell_text, a.pattern, a.regex, a.case_sensitive)
       /\ ~(a.ignore_patterns # <<>> /\ matches_ignore_value(cell_text, a.ignore_patterns))
    THEN [hit |-> TRUE, col |-> col_idx, value |-> cell_text,
          stawka |-> get_stawka_for_row(row, col_idx, f.stawka_idx, f.header_row)]
    ELSE [hit |-> FALSE, col |-> col_idx, value |-> cell_text, stawka |-> <<>>]

\* Faulty variant of scan_cell_all: the header of the column is not held
\* against the ignore patterns.
scan_cell_all_any_header(row, c_idx, f, a) ==
    scan_text(row, c_idx,
              IF row[c_idx + 1].t = "none" THEN <<>> ELSE py_str(row[c_idx + 1]), f, a)

\* body of `for c_idx, cell in enumerate(row)` (mode ALL): [hit, col, value, stawka]
scan_cell_all(row, c_idx, f, a) ==
    IF /\ f.header_row # <<>>
       /\ c_idx < Len(f.header_row)
       /\ a.ignore_patterns # <<>>
       /\ matches_ignore_pattern(py_str(f.header_row[c_idx + 1]), a.ignore_patterns)
    THEN [hit |-> FALSE, col |-> c_idx, value |-> <<>>, stawka |-> <<>>]
    ELSE scan_text(row, c_idx,
                   IF row[c_idx + 1].t = "none" THEN <<>> ELSE py_str(row[c_idx + 1]), f, a)

\* body of `for target_col_idx in target_col_indices`: [hit, col, value, stawka]
scan_cell_value(row, target_col_idx, cell_value, f, a) ==
    IF cell_value.t = "none"
    THEN [hit |-> FALSE, col |-> target_col_idx, value |-> <<>>, stawka |-> <<>>]
    ELSE scan_text(row, target_col_idx, cell_value.s, f, a)

scan_cell_named(row, target_col_idx, f, a) ==
    scan_cell_value(row, target_col_idx, get_cell_value_safe(row, target_col_idx), f, a)

(***************************************************************************)
(* Bounds of the model and the data the collaborators may return.          *)
(***************************************************************************)
MaxSpreadsheets == 2
MaxSheets == 2

VARIABLES
    args,               \* the arguments of the generator call
    stop_event,         \* threading.Event: is_set()
    pc,                 \* where the generator stands
    spreadsheet_list,   \* the spreadsheets to visit (ids)
    ss_i,               \* position of the spreadsheet loop (1-based)
    sheets,             \* number of tabs the metadata listed
    sh_i,               \* position of the sheet loop (1-based)
    spreadsheet_name,   \* local spreadsheet_name
    frame,              \* locals of the sheet scan
    result,             \* the record search_across_spreadsheets received
    yielded,            \* history: the records handed to the caller
    log,                \* history: the collaborator requests and answers
    stop_pc,            \* history: where the generator stood when stop_event was set
    fn_in,              \* argument of a pure function under test
    fn_out,             \* its result
    window              \* the events a worker thread posted with write_event_value

scan_vars == <<args, stop_event, pc, spreadsheet_list, ss_i, sheets, sh_i,
               spreadsheet_name, frame, result, yielded, log, stop_pc, window>>
vars == <<args, stop_event, pc, spreadsheet_list, ss_i, sheets, sh_i,
          spreadsheet_name, frame, result, yielded, log, stop_pc, fn_in, fn_out, window>>

NoName == [kind |-> "none", id |-> 0]
NoFrame == [values |-> <<>>, header_row |-> <<>>, stawka_idx |-> NoIdx, search_all |-> FALSE,
            target_col_indices |-> <<>>, r_idx |-> 0, k |-> 0]
NoResult == [hit |-> FALSE]
NoCall == [fn |-> "none"]

\* one collaborator request and its answer: count is the number of entries of a
\* listing or of a metadata answer, grid the rows of a values answer; stopped
\* tells whether stop_event was set when the request went out.  A values answer
\* also keeps the header row and the rate column the scan resolved for it
\* (the locals header_row and stawka_idx) and the records its grid yields when
\* the scan is never stopped.
Request(op, ss, sh, ok, count, grid) ==
    [op |-> op, ss |-> ss, sh |-> sh, ok |-> ok, count |-> count, grid |-> grid,
     stopped |-> stop_event, header_row |-> <<>>, stawka_idx |-> NoIdx, records |-> <<>>]

Goto(c) == pc' = c.pc /\ ss_i' = c.ss_i /\ sh_i' = c.sh_i
Here(label) == [pc |-> label, ss_i |-> ss_i, sh_i |-> sh_i]

\* where control goes when search_in_spreadsheet returns
AfterSpreadsheet ==
    IF args.mode = "across" THEN [pc |-> "A_loop", ss_i |-> ss_i + 1, sh_i |-> sh_i]
    ELSE Here("done")

\* Faulty variant of AfterSheet: the sheet loop asks for every sheet twice.
AfterSheet_fetching_twice ==
    IF args.mode = "sheet" THEN Here("done")
    ELSE [pc |-> "S_loop", ss_i |-> ss_i,
          sh_i |-> IF Cardinality({k \in DOMAIN log :
                                     log[k].op = "values" /\ log[k].sh = sh_i}) < 2
                   THEN sh_i ELSE sh_i + 1]

\* where control goes when search_in_sheet returns
AfterSheet ==
    IF args.mode = "sheet" THEN Here("done")
    ELSE [pc |-> "S_loop", ss_i |-> ss_i, sh_i |-> sh_i + 1]

\* where control goes when search_in_sheet raises: the `except Exception` of
\* search_across_spreadsheets is the only handler on the way
AfterRaise ==
    IF args.mode = "across" THEN [pc |-> "A_loop", ss_i |-> ss_i + 1, sh_i |-> sh_i]
    ELSE Here("raised")

CurrentId == IF args.mode \in {"sheet", "spreadsheet"} THEN args.spreadsheet_id
             ELSE spreadsheet_list[ss_i]

(***************************************************************************)
(* The caller and the other thread.                                        *)
(***************************************************************************)
\* next(generator): the first call starts the body, a later one resumes after the yield
Pull ==
    /\ pc \in {"created", "suspended"}
    /\ pc' = IF pc = "created"
             THEN (CASE args.mode = "sheet" -> "H_start"
                     [] args.mode = "spreadsheet" -> "S_start"
                     [] args.mode = "across" -> "A_start"
                     [] OTHER -> "L_list")
             ELSE (IF args.mode = "all" THEN "L_cell" ELSE "H_cell")
    /\ frame' = IF pc = "created" THEN frame ELSE [frame EXCEPT !.k = @ + 1]
    /\ UNCHANGED <<args, stop_event, spreadsheet_list, ss_i, sheets, sh_i, spreadsheet_name,
                   result, yielded, log, stop_pc, fn_in, fn_out, window>>

\* stop_event.set() by the thread that owns the stop button
SetStop ==
    /\ ~stop_event
    /\ pc \notin {"idle", "done", "raised"}
    /\ stop_event' = TRUE
    /\ stop_pc' = pc
    /\ UNCHANGED <<args, pc, spreadsheet_list, ss_i, sheets, sh_i, spreadsheet_name,
                   frame, result, yielded, log, fn_in, fn_out, window>>

(***************************************************************************)
(* search_across_spreadsheets                                              *)
(***************************************************************************)
\* lines 1307-1320
A_start ==
    /\ pc = "A_start"
    /\ IF stop_event THEN pc' = "done" /\ UNCHANGED spreadsheet_list
       ELSE IF args.ids_given THEN pc' = "A_loop" /\ spreadsheet_list' = args.spreadsheet_ids
       ELSE pc' = "A_list" /\ UNCHANGED spreadsheet_list
    /\ UNCHANGED <<args, stop_event, ss_i, sheets, sh_i, spreadsheet_name, frame, result,
                   yielded, log, stop_pc, fn_in, fn_out, window>>

\* lines 1313-1318: list_spreadsheets_owned_by_me, any failure ends the scan
A_list ==
    /\ pc = "A_list"
    /\ \E ok \in BOOLEAN, n \in 0..MaxSpreadsheets :
          /\ log' = Append(log, Request("list", 0, 0, ok, IF ok THEN n ELSE 0, <<>>))
          /\ IF ok THEN pc' = "A_loop" /\ spreadsheet_list' = [i \in 1..n |-> i]
             ELSE pc' = "done" /\ UNCHANGED spreadsheet_list
    /\ UNCHANGED <<args, stop_event, ss_i, sheets, sh_i, spreadsheet_name, frame, result,
                   yielded, stop_pc, fn_in, fn_out, window>>

\* lines 1323-1340: head of the spreadsheet loop
A_loop ==
    /\ pc = "A_loop"
    /\ pc' = IF ss_i > Len(spreadsheet_list) \/ stop_event THEN "done" ELSE "S_start"
    /\ UNCHANGED <<args, stop_event, spreadsheet_list, ss_i, sheets, sh_i, spreadsheet_name,
                   frame, result, yielded, log, stop_pc, fn_in, fn_out, window>>

\* lines 1340-1344: a result arrived from search_in_spreadsheet
A_result ==
    /\ pc = "A_result"
    /\ IF stop_event THEN pc' = "done" /\ UNCHANGED yielded
       ELSE pc' = "suspended" /\ yielded' = Append(yielded, result)
    /\ result' = NoResult
    /\ UNCHANGED <<args, stop_event, spreadsheet_list, ss_i, sheets, sh_i, spreadsheet_name,
                   frame, log, stop_pc, fn_in, fn_out, window>>

(***************************************************************************)
(* search_in_spreadsheet                                                   *)
(***************************************************************************)
\* lines 948-950
S_start ==
    /\ pc = "S_start"
    /\ Goto(IF stop_event THEN AfterSpreadsheet ELSE Here("S_meta"))
    /\ UNCHANGED <<args, stop_event, spreadsheet_list, sheets, spreadsheet_name,
                   frame, result, yielded, log, stop_pc, fn_in, fn_out, window>>

\* Faulty variant of S_meta: the metadata request stands outside the try, a
\* failure leaves the generator.
S_meta_failure_raises ==
    /\ pc = "S_meta"
    /\ \E ok \in BOOLEAN, n \in 0..MaxSheets :
          /\ log' = Append(log, Request("meta", CurrentId, 0, ok, IF ok THEN n ELSE 0, <<>>))
          /\ IF ok
             THEN /\ pc' = "S_loop" /\ sh_i' = 1 /\ ss_i' = ss_i
                  /\ sheets' = n
                  /\ spreadsheet_name' = [kind |-> "title", id |-> CurrentId]
             ELSE /\ pc' = "raised"
                  /\ UNCHANGED <<ss_i, sh_i, sheets, spreadsheet_name>>
    /\ UNCHANGED <<args, stop_event, spreadsheet_list, frame, result, yielded, stop_pc,
                   fn_in, fn_out, window>>

\* lines 952-962: the metadata request
S_meta ==
    /\ pc = "S_meta"
    /\ \E ok \in BOOLEAN, n \in 0..MaxSheets :
          /\ log' = Append(log, Request("meta", CurrentId, 0, ok, IF ok THEN n ELSE 0, <<>>))
          /\ IF ok
             THEN /\ pc' = "S_loop" /\ sh_i' = 1 /\ ss_i' = ss_i
                  /\ sheets' = n
                  /\ spreadsheet_name' = [kind |-> "title", id |-> CurrentId]
             ELSE /\ Goto(AfterSpreadsheet)
                  /\ UNCHANGED <<sheets, spreadsheet_name>>
    /\ UNCHANGED <<args, stop_event, spreadsheet_list, frame, result, yielded, stop_pc,
                   fn_in, fn_out, window>>

\* lines 965-970: head of the sheet loop
S_loop ==
    /\ pc = "S_loop"
    /\ Goto(IF sh_i > sheets \/ stop_event THEN AfterSpreadsheet ELSE Here("H_start"))
    /\ UNCHANGED <<args, stop_event, spreadsheet_list, sheets, spreadsheet_name,
                   frame, result, yielded, log, stop_pc, fn_in, fn_out, window>>

(***************************************************************************)
(* search_in_sheet                                                         *)
(***************************************************************************)
SheetTitle == IF args.mode = "sheet" THEN args.sheet_name ELSE sh_i

\* the record of lines 1211-1218 / 1248-1255 for outcome o of a cell of row r_idx,
\* with where it came from (unit: the values request that returned the grid)
MatchRecord(r_idx, o) ==
    [spreadsheetId |-> CurrentId, spreadsheetName |-> spreadsheet_name,
     sheetName |-> SheetTitle, cell |-> cell_address(r_idx, o.col),
     searchedValue |-> o.value, stawka |-> o.stawka,
     unit |-> Len(log), row |-> r_idx, col |-> o.col]

\* Faulty variant of H_start: the stop event is not looked at on entry.
H_start_without_stop_check ==
    /\ pc = "H_start"
    /\ Goto(IF args.mode = "sheet" /\ ~args.name_given THEN Here("H_title")
            ELSE Here("H_fetch"))
    /\ spreadsheet_name' = IF args.mode = "sheet" /\ args.name_given
                           THEN [kind |-> "given", id |-> args.spreadsheet_id]
                           ELSE spreadsheet_name
    /\ UNCHANGED <<args, stop_event, spreadsheet_list, sheets, frame, result, yielded, log,
                   stop_pc, fn_in, fn_out, window>>

\* lines 1055-1057
H_start ==
    /\ pc = "H_start"
    /\ Goto(IF stop_event THEN AfterSheet
            ELSE IF args.mode = "sheet" /\ ~args.name_given THEN Here("H_title")
            ELSE Here("H_fetch"))
    /\ spreadsheet_name' = IF args.mode = "sheet" /\ args.name_given
                           THEN [kind |-> "given", id |-> args.spreadsheet_id]
                           ELSE spreadsheet_name
    /\ UNCHANGED <<args, stop_event, spreadsheet_list, sheets, frame, result, yielded, log,
                   stop_pc, fn_in, fn_out, window>>

\* lines 1060-1068: the title request of a call without spreadsheet_name
H_title ==
    /\ pc = "H_title"
    /\ \E ok \in BOOLEAN :
          /\ log' = Append(log, Request("title", CurrentId, 0, ok, 0, <<>>))
          /\ spreadsheet_name' = [kind |-> IF ok THEN "title" ELSE "id", id |-> CurrentId]
    /\ pc' = "H_fetch"
    /\ UNCHANGED <<args, stop_event, spreadsheet_list, ss_i, sheets, sh_i, frame, result,
                   yielded, stop_pc, fn_in, fn_out, window>>

\* the grids a sheet may hold
RECURSIVE SeqsUpTo(_, _)
SeqsUpTo(S, n) ==
    IF n = 0 THEN {<<>>}
    ELSE LET shorter == SeqsUpTo(S, n - 1)
         IN  shorter \cup {Append(q, x) : q \in {q \in shorter : Len(q) = n - 1}, x \in S}

MaxDataRows == 2

\* header rows, rows above the header, data rows
HeaderNumer == <<Str(<<"N","u","m","e","r"," ","z","l","e","c","e","n","i","a">>),
                 Str(<<"S","t","a","w","k","a">>)>>
HeaderZlecenie == <<Str(<<"Z","l","e","c","e","n","i","e">>), Str(<<"U","w","a","g","i">>),
                    Str(<<"z","l","e","c","e","n","i","e","_","o","l","d">>),
                    Str(<<"Z","L","E","C","E","N","I","E">>)>>
RowAbove == <<Str(<<"2","0","2","4">>), Str(<<"1">>)>>
RowPlain == <<Str(<<"3","8","9","6","0">>), Str(<<"2","8","0",".","0","0">>)>>
RowWide == <<Str(<<"3","8","9","6","0">>), None,
             Str(<<"3","8"," ","9","6","0">>), Str(<<"1","3","8","9","6","0">>), Str(<<"9">>)>>
RowUrl == <<Str(<<"h","t","t","p","s",":","/","/","x",".","c","o","m","/","o","r","d","e","r","/",
                  "3","8","9","6","0">>)>>

DataRows == {RowPlain, RowWide, RowUrl}
Tops == {<<>>, <<HeaderNumer>>, <<HeaderZlecenie>>, <<RowAbove, HeaderNumer>>,
         <<RowAbove, HeaderZlecenie>>}

\* what a values request of search_in_sheet called on its own may return
SheetGrids == {top \o rows : top \in Tops, rows \in SeqsUpTo(DataRows, MaxDataRows)}
\* what a values request may return while several sheets are scanned
SmallGrids == {<<HeaderZlecenie, RowWide>>}

\* the arguments of the calls
PlainQuery == [pattern |-> <<"3","8","9","6","0">>, regex |-> FALSE]
RegexQuery == [pattern |-> <<"^","3","8">>, regex |-> TRUE]
BrokenQuery == [pattern |-> <<"(","3","8">>, regex |-> TRUE]
Queries == {PlainQuery, RegexQuery, BrokenQuery}
ColumnALL == Str(<<"A","L","L">>)
ColumnZlecenie == Str(<<"Z","l","e","c","e","n","i","e">>)
IgnoreLists == {<<>>,
                << <<"*","o","l","d">>, <<"h","t","t","p","s">> >>,
                << <<"z","l","e","c","*">> >>}
HeaderRowIndices == {<<>>, <<0, 1>>}

CallArgs(mode, q, col, ign, hri, name_given, ids) ==
    [mode |-> mode, spreadsheet_id |-> 1, sheet_name |-> 1, name_given |-> name_given,
     ids_given |-> ids # <<>>, spreadsheet_ids |-> ids,
     pattern |-> q.pattern, regex |-> q.regex, case_sensitive |-> FALSE,
     search_column_name |-> col, ignore_patterns |-> ign, header_row_indices |-> hri]

SheetArgs ==
    {CallArgs("sheet", PlainQuery, col, ign, hri, FALSE, <<>>) :
        col \in {None, ColumnALL, ColumnZlecenie}, ign \in IgnoreLists, hri \in HeaderRowIndices}
    \cup {CallArgs("sheet", q, ColumnALL, <<>>, <<>>, FALSE, <<>>) : q \in Queries}
    \cup {CallArgs("sheet", PlainQuery, ColumnALL, <<>>, <<>>, TRUE, <<>>)}
SpreadsheetArgs ==
    {CallArgs("spreadsheet", q, col, <<>>, <<>>, FALSE, <<>>) :
        q \in Queries, col \in {ColumnALL, ColumnZlecenie}}
\* every column of the spreadsheets the listing gives, or one column of the
\* spreadsheets the caller names (in descending order of id)
AcrossArgs ==
    {CallArgs("across", q, ColumnALL, <<>>, <<>>, FALSE, <<>>) : q \in {PlainQuery, BrokenQuery}}
    \cup {CallArgs("across", q, ColumnZlecenie, <<>>, <<>>, FALSE,
                   [i \in 1..MaxSpreadsheets |-> MaxSpreadsheets + 1 - i]) :
             q \in {PlainQuery, BrokenQuery}}
LegacyArgs ==
    {CallArgs("all", q, None, <<>>, <<>>, FALSE, <<>>) : q \in {PlainQuery, BrokenQuery}}
ScanArgs == SheetArgs \cup SpreadsheetArgs \cup AcrossArgs \cup LegacyArgs

\* search_in_spreadsheet called with a column that some sheets lack, with
\* ignore patterns, or without column name; the sheets it may then meet
ColumnNumer == Str(<<"N","u","m","e","r"," ","z","l","e","c","e","n","i","a">>)
SkipArgs ==
    {CallArgs("spreadsheet", PlainQuery, c.col, c.ign, <<>>, FALSE, <<>>) :
        c \in {[col |-> ColumnNumer, ign |-> <<>>],
               [col |-> ColumnZlecenie, ign |-> << <<"z","l","e","c","*">> >>],
               [col |-> None, ign |-> <<>>],
               [col |-> None, ign |-> << <<"z","l","e","c","*">> >>]}}
SkipGrids == {<<HeaderZlecenie, RowWide>>, <<HeaderNumer, RowPlain>>, <<RowPlain>>}

Grids == IF args.mode = "sheet" THEN SheetGrids
         ELSE IF args \in SkipArgs THEN SkipGrids
         ELSE SmallGrids

\* the answer of a values request
ValuesAnswers == {[ok |-> FALSE, grid |-> <<>>]} \cup {[ok |-> TRUE, grid |-> g] : g \in Grids}

\* Faulty variant of first_frame: the row loop starts at the top of the grid.
first_frame_from_top(grid, rs) ==
    [values |-> grid, header_row |-> rs.header_row, stawka_idx |-> rs.stawka_idx,
     search_all |-> rs.search_all, target_col_indices |-> rs.target_col_indices,
     r_idx |-> 0, k |-> 0]

\* the locals of the scan of grid once resolve_sheet answered rs
first_frame(grid, rs) ==
    [values |-> grid, header_row |-> rs.header_row, stawka_idx |-> rs.stawka_idx,
     search_all |-> rs.search_all, target_col_indices |-> rs.target_col_indices,
     r_idx |-> rs.start_row, k |-> 0]

\* the outcome of position k of the inner loop over the row
CellOutcome(f, a, k) ==
    IF f.search_all THEN scan_cell_all(f.values[f.r_idx + 1], k, f, a)
    ELSE scan_cell_named(f.values[f.r_idx + 1], f.target_col_indices[k + 1], f, a)

InnerLen(f) == IF f.search_all THEN Len(f.values[f.r_idx + 1]) ELSE Len(f.target_col_indices)

\* the positions of the inner loop, from position k on, that yield a record
RowHits(f, a, k) == {j \in k .. InnerLen(f) - 1 : CellOutcome(f, a, j).hit}

\* lines 857-890 for cell c_idx of the row: [hit, col, value]
legacy_cell(row, c_idx, a) ==
    LET cell_text == IF row[c_idx + 1].t = "none" THEN <<>> ELSE py_str(row[c_idx + 1])
    IN  [hit |-> legacy_match(cell_text, a.pattern, a.regex, a.case_sensitive),
         col |-> c_idx, value |-> cell_text]

(***************************************************************************)
(* What the grid of one values answer yields when the scan is never        *)
(* stopped: the two loops of search_in_sheet (of search_in_spreadsheets)   *)
(* run to their end.  u tells where the grid came from: [k, ss, sh, name]. *)
(***************************************************************************)
\* the values request about to go out
ThisUnit == [k |-> Len(log) + 1, ss |-> CurrentId, sh |-> SheetTitle, name |-> spreadsheet_name]

\* the record of outcome o of row r_idx of the grid of u
RecordAt(u, a, r_idx, o) ==
    IF a.mode = "all"
    THEN [spreadsheetId |-> u.ss, spreadsheetName |-> u.name, sheetName |-> u.sh,
          cell |-> cell_address(r_idx, o.col), value |-> o.value,
          unit |-> u.k, row |-> r_idx, col |-> o.col]
    ELSE [spreadsheetId |-> u.ss, spreadsheetName |-> u.name, sheetName |-> u.sh,
          cell |-> cell_address(r_idx, o.col), searchedValue |-> o.value, stawka |-> o.stawka,
          unit |-> u.k, row |-> r_idx, col |-> o.col]

\* outcome of inner position j of the current row of f
OutcomeAt(f, a, j) ==
    IF a.mode = "all" THEN legacy_cell(f.values[f.r_idx + 1], j, a) ELSE CellOutcome(f, a, j)

InnerLenAt(f, a) == IF a.mode = "all" THEN Len(f.values[f.r_idx + 1]) ELSE InnerLen(f)

\* the records of the current row of f from inner position j on
RECURSIVE RowRecords(_, _, _, _)
RowRecords(u, f, a, j) ==
    IF j >= InnerLenAt(f, a) THEN <<>>
    ELSE (IF OutcomeAt(f, a, j).hit THEN <<RecordAt(u, a, f.r_idx, OutcomeAt(f, a, j))>> ELSE <<>>)
         \o RowRecords(u, f, a, j + 1)

\* the records of the rows of f from row f.r_idx on
RECURSIVE GridRecords(_, _, _)
GridRecords(u, f, a) ==
    IF f.r_idx >= Len(f.values) THEN <<>>
    ELSE RowRecords(u, f, a, 0) \o GridRecords(u, [f EXCEPT !.r_idx = @ + 1], a)

\* search_in_sheet: the records of answer ans, for which resolve_sheet gave rs
ResolvedRecords(u, ans, rs, a) ==
    IF ~ans.ok \/ ans.grid = <<>> \/ rs.skip THEN <<>>
    ELSE GridRecords(u, first_frame(ans.grid, rs), a)

\* search_in_spreadsheets: the records of answer ans
LegacyRecords(u, ans, a) ==
    IF ~ans.ok \/ ans.grid = <<>> THEN <<>>
    ELSE GridRecords(u, [NoFrame EXCEPT !.values = ans.grid, !.search_all = TRUE], a)

\* Faulty variant of H_fetch: a sheet without column to scan ends the scan of
\* the spreadsheet.
H_fetch_skip_ends_scan ==
    /\ pc = "H_fetch"
    /\ IF args.regex /\ ~re_compiles(args.pattern)
       THEN Goto(AfterRaise) /\ UNCHANGED <<frame, log>>
       ELSE \E ans \in ValuesAnswers :
            \E rs \in {resolve_sheet(ans.grid, args.search_column_name, args.ignore_patterns,
                                     args.header_row_indices)} :
              /\ log' = Append(log,
                     [Request("values", CurrentId, SheetTitle, ans.ok, 0, ans.grid)
                        EXCEPT !.header_row = rs.header_row,
                               !.stawka_idx = rs.stawka_idx,
                               !.records = ResolvedRecords(ThisUnit, ans, rs, args)])
              /\ IF ~ans.ok \/ ans.grid = <<>>
                 THEN Goto(AfterSheet) /\ UNCHANGED frame
                 ELSE IF rs.skip
                 THEN Goto(AfterSpreadsheet) /\ UNCHANGED frame
                 ELSE /\ Goto(Here("H_row"))
                      /\ frame' = first_frame(ans.grid, rs)
    /\ UNCHANGED <<args, stop_event, spreadsheet_list, sheets, spreadsheet_name, result,
                   yielded, stop_pc, fn_in, fn_out, window>>

\* lines 1070-1126: compile the pattern, fetch the values, find the columns
H_fetch ==
    /\ pc = "H_fetch"
    /\ IF args.regex /\ ~re_compiles(args.pattern)
       THEN Goto(AfterRaise) /\ UNCHANGED <<frame, log>>
       ELSE \E ans \in ValuesAnswers :
            \E rs \in {resolve_sheet(ans.grid, args.search_column_name, args.ignore_patterns,
                                     args.header_row_indices)} :
              /\ log' = Append(log,
                     [Request("values", CurrentId, SheetTitle, ans.ok, 0, ans.grid)
                        EXCEPT !.header_row = rs.header_row,
                               !.stawka_idx = rs.stawka_idx,
                               !.records = ResolvedRecords(ThisUnit, ans, rs, args)])
              /\ IF ~ans.ok \/ ans.grid = <<>>
                 THEN Goto(AfterSheet) /\ UNCHANGED frame
                 ELSE IF rs.skip
                 THEN Goto(AfterSheet) /\ UNCHANGED frame
                 ELSE /\ Goto(Here("H_row"))
                      /\ frame' = first_frame(ans.grid, rs)
    /\ UNCHANGED <<args, stop_event, spreadsheet_list, sheets, spreadsheet_name, result,
                   yielded, stop_pc, fn_in, fn_out, window>>

\* lines 1182-1186 / 1226-1230: head of the row loop
H_row ==
    /\ pc = "H_row"
    /\ IF frame.r_idx >= Len(frame.values) \/ stop_event
       THEN Goto(AfterSheet) /\ frame' = NoFrame
       ELSE Goto(Here("H_cell")) /\ UNCHANGED frame
    /\ UNCHANGED <<args, stop_event, spreadsheet_list, sheets, spreadsheet_name, result,
                   yielded, log, stop_pc, fn_in, fn_out, window>>

\* Faulty variant of H_cell: the row is left after its first record.
H_cell_one_record_per_row ==
    /\ pc = "H_cell"
    /\ \E hits \in {RowHits(frame, args, frame.k)} :
          IF hits = {}
          THEN /\ pc' = "H_row"
               /\ frame' = [frame EXCEPT !.r_idx = @ + 1, !.k = 0]
               /\ UNCHANGED <<result, yielded>>
          ELSE \E rec \in {MatchRecord(frame.r_idx, CellOutcome(frame, args, MinOf(hits)))} :
               /\ frame' = [frame EXCEPT !.k = InnerLen(frame)]
               /\ IF args.mode = "across"
                  THEN pc' = "A_result" /\ result' = rec /\ UNCHANGED yielded
                  ELSE pc' = "suspended" /\ yielded' = Append(yielded, rec)
                       /\ UNCHANGED result
    /\ UNCHANGED <<args, stop_event, spreadsheet_list, ss_i, sheets, sh_i, spreadsheet_name,
                   log, stop_pc, fn_in, fn_out, window>>

\* lines 1187-1223 / 1231-1259: the inner loop runs to its next yield or to its end
H_cell ==
    /\ pc = "H_cell"
    /\ \E hits \in {RowHits(frame, args, frame.k)} :
          IF hits = {}
          THEN /\ pc' = "H_row"
               /\ frame' = [frame EXCEPT !.r_idx = @ + 1, !.k = 0]
               /\ UNCHANGED <<result, yielded>>
          ELSE \E rec \in {MatchRecord(frame.r_idx, CellOutcome(frame, args, MinOf(hits)))} :
               /\ frame' = [frame EXCEPT !.k = MinOf(hits)]
               /\ IF args.mode = "across"
                  THEN pc' = "A_result" /\ result' = rec /\ UNCHANGED yielded
                  ELSE pc' = "suspended" /\ yielded' = Append(yielded, rec)
                       /\ UNCHANGED result
    /\ UNCHANGED <<args, stop_event, spreadsheet_list, ss_i, sheets, sh_i, spreadsheet_name,
                   log, stop_pc, fn_in, fn_out, window>>

(***************************************************************************)
(* search_in_spreadsheets (the scan over every owned spreadsheet)          *)
(***************************************************************************)
\* lines 812-817: the listing is outside any try, and so is re.compile
L_list ==
    /\ pc = "L_list"
    /\ \E ok \in BOOLEAN, n \in 0..MaxSpreadsheets :
          /\ log' = Append(log, Request("list", 0, 0, ok, IF ok THEN n ELSE 0, <<>>))
          /\ IF ~ok
             THEN pc' = "raised" /\ UNCHANGED spreadsheet_list
             ELSE IF args.regex /\ ~re_compiles(args.pattern)
             THEN pc' = "raised" /\ UNCHANGED spreadsheet_list
             ELSE pc' = "L_file" /\ spreadsheet_list' = [i \in 1..n |-> i]
    /\ UNCHANGED <<args, stop_event, ss_i, sheets, sh_i, spreadsheet_name, frame, result,
                   yielded, stop_pc, fn_in, fn_out, window>>

\* lines 825-830: head of the file loop
L_file ==
    /\ pc = "L_file"
    /\ pc' = IF ss_i > Len(spreadsheet_list) \/ stop_event THEN "done" ELSE "L_meta"
    /\ UNCHANGED <<args, stop_event, spreadsheet_list, ss_i, sheets, sh_i, spreadsheet_name,
                   frame, result, yielded, log, stop_pc, fn_in, fn_out, window>>

\* lines 831-837: the metadata request, a failure skips the file
L_meta ==
    /\ pc = "L_meta"
    /\ \E ok \in BOOLEAN, n \in 0..MaxSheets :
          /\ log' = Append(log, Request("meta", CurrentId, 0, ok, IF ok THEN n ELSE 0, <<>>))
          /\ IF ok
             THEN /\ pc' = "L_sheet" /\ sh_i' = 1 /\ ss_i' = ss_i
                  /\ sheets' = n
                  /\ spreadsheet_name' = [kind |-> "name", id |-> CurrentId]
             ELSE /\ pc' = "L_file" /\ ss_i' = ss_i + 1 /\ sh_i' = sh_i
                  /\ UNCHANGED <<sheets, spreadsheet_name>>
    /\ UNCHANGED <<args, stop_event, spreadsheet_list, frame, result, yielded, stop_pc,
                   fn_in, fn_out, window>>

\* lines 838-842: head of the sheet loop
L_sheet ==
    /\ pc = "L_sheet"
    /\ IF sh_i > sheets THEN pc' = "L_file" /\ ss_i' = ss_i + 1
       ELSE IF stop_event THEN pc' = "done" /\ ss_i' = ss_i
       ELSE pc' = "L_fetch" /\ ss_i' = ss_i
    /\ UNCHANGED <<args, stop_event, spreadsheet_list, sheets, sh_i, spreadsheet_name,
                   frame, result, yielded, log, stop_pc, fn_in, fn_out, window>>

\* lines 843-848: the values request, a failure skips the sheet
L_fetch ==
    /\ pc = "L_fetch"
    /\ \E ans \in ValuesAnswers :
          /\ log' = Append(log,
                 [Request("values", CurrentId, SheetTitle, ans.ok, 0, ans.grid)
                    EXCEPT !.records = LegacyRecords(ThisUnit, ans, args)])
          /\ IF ans.ok
             THEN /\ pc' = "L_row" /\ sh_i' = sh_i
                  /\ frame' = [NoFrame EXCEPT !.values = ans.grid, !.search_all = TRUE]
             ELSE /\ pc' = "L_sheet" /\ sh_i' = sh_i + 1
                  /\ UNCHANGED frame
    /\ UNCHANGED <<args, stop_event, spreadsheet_list, ss_i, sheets, spreadsheet_name, result,
                   yielded, stop_pc, fn_in, fn_out, window>>

\* lines 849-854: head of the row loop
L_row ==
    /\ pc = "L_row"
    /\ IF frame.r_idx >= Len(frame.values)
       THEN pc' = "L_sheet" /\ sh_i' = sh_i + 1 /\ frame' = NoFrame
       ELSE IF stop_event THEN pc' = "done" /\ sh_i' = sh_i /\ frame' = NoFrame
       ELSE pc' = "L_cell" /\ sh_i' = sh_i /\ UNCHANGED frame
    /\ UNCHANGED <<args, stop_event, spreadsheet_list, ss_i, sheets, spreadsheet_name, result,
                   yielded, log, stop_pc, fn_in, fn_out, window>>

\* the record of lines 893-899, with where it came from
LegacyRecord(r_idx, o) ==
    [spreadsheetId |-> CurrentId, spreadsheetName |-> spreadsheet_name,
     sheetName |-> SheetTitle, cell |-> cell_address(r_idx, o.col), value |-> o.value,
     unit |-> Len(log), row |-> r_idx, col |-> o.col]

LegacyHits(f, a, k) ==
    {j \in k .. Len(f.values[f.r_idx + 1]) - 1 : legacy_cell(f.values[f.r_idx + 1], j, a).hit}

\* lines 855-905: the inner loop runs to its next yield or to its end
L_cell ==
    /\ pc = "L_cell"
    /\ \E hits \in {LegacyHits(frame, args, frame.k)} :
          IF hits = {}
          THEN /\ pc' = "L_row"
               /\ frame' = [frame EXCEPT !.r_idx = @ + 1, !.k = 0]
               /\ UNCHANGED yielded
          ELSE /\ frame' = [frame EXCEPT !.k = MinOf(hits)]
               /\ pc' = "suspended"
               /\ yielded' = Append(yielded,
                      LegacyRecord(frame.r_idx,
                                   legacy_cell(frame.values[frame.r_idx + 1], MinOf(hits), args)))
    /\ UNCHANGED <<args, stop_event, spreadsheet_list, ss_i, sheets, sh_i, spreadsheet_name,
                   result, log, stop_pc, fn_in, fn_out, window>>

(***************************************************************************)
(* The scans as one state machine.                                         *)
(***************************************************************************)
Init ==
    /\ args \in ScanArgs
    /\ stop_event = FALSE
    /\ pc = "created"
    /\ spreadsheet_list = <<>>
    /\ ss_i = 1
    /\ sheets = 0
    /\ sh_i = 1
    /\ spreadsheet_name = NoName
    /\ frame = NoFrame
    /\ result = NoResult
    /\ yielded = <<>>
    /\ log = <<>>
    /\ stop_pc = "none"
    /\ window = <<>>
    /\ fn_in = NoCall
    /\ fn_out = NoCall

Next ==
    \/ Pull
    \/ SetStop
    \/ A_start
    \/ A_list
    \/ A_loop
    \/ A_result
    \/ S_start
    \/ S_meta
    \/ S_loop
    \/ H_start
    \/ H_title
    \/ H_fetch
    \/ H_row
    \/ H_cell
    \/ L_list
    \/ L_file
    \/ L_meta
    \/ L_sheet
    \/ L_fetch
    \/ L_row
    \/ L_cell

Spec == Init /\ [][Next]_vars

(***************************************************************************)
(* What the scan yields when nothing stops it, read from the answers the   *)
(* collaborators gave so far (log).                                        *)
(***************************************************************************)
IsPrefix(s, t) == Len(s) <= Len(t) /\ SubSeq(t, 1, Len(s)) = s

\* the records of the answers so far, had the scan never been stopped
RECURSIVE RecordsUpTo(_)
RecordsUpTo(n) == IF n = 0 THEN <<>> ELSE RecordsUpTo(n - 1) \o log[n].records

ExpectedRecords == RecordsUpTo(Len(log))

\* the grid, the resolved header row and the resolved rate column of the sheet
\* a yielded record came from
RecordGrid(r) == log[r.unit].grid
RecordHeader(r) == log[r.unit].header_row
RecordRateColumn(r) == log[r.unit].stawka_idx

(***************************************************************************)
(* Properties of the scans.                                                *)
(***************************************************************************)
SheetScans == {"sheet", "spreadsheet", "across"}
BrokenRegex == args.regex /\ ~re_compiles(args.pattern)

\* the cells of the data rows of grid g, below start row s, that match the query
MatchingCells(g, s) ==
    {rc \in UNION {{<<r, c>> : c \in DOMAIN g[r]} : r \in s + 1 .. Len(g)} :
        /\ g[rc[1]][rc[2]].t # "none"
        /\ check_match(py_str(g[rc[1]][rc[2]]), args.pattern, args.regex, args.case_sensitive)}

\* C1: with a non-empty ignore list, search_in_sheet (ALL, named column, no name)
\* yields no record whose column has a resolved header that matches an ignore
\* pattern, and no record whose searchedValue matches an ignore pattern.
C1_IgnoreOverridesMatch ==
    (args.mode \in SheetScans /\ args.ignore_patterns # <<>>) =>
        \A i \in DOMAIN yielded :
            /\ ~matches_ignore_value(yielded[i].searchedValue, args.ignore_patterns)
            /\ yielded[i].col < Len(RecordHeader(yielded[i])) =>
                  ~matches_ignore_pattern(py_str(RecordHeader(yielded[i])[yielded[i].col + 1]),
                                          args.ignore_patterns)

\* a finished scan that yielded a record although the grid also held a matching
\* cell under an ignored header and a matching cell with an ignored value
C1_Witness ==
    /\ pc = "done" /\ ~stop_event
    /\ args.mode = "sheet" /\ args.ignore_patterns # <<>>
    /\ yielded # <<>>
    /\ \E rc \in MatchingCells(RecordGrid(yielded[1]), 1) :
          /\ rc[2] <= Len(RecordHeader(yielded[1]))
          /\ matches_ignore_pattern(py_str(RecordHeader(yielded[1])[rc[2]]), args.ignore_patterns)
    /\ \E rc \in MatchingCells(RecordGrid(yielded[1]), 1) :
          matches_ignore_value(py_str(RecordGrid(yielded[1])[rc[1]][rc[2]]), args.ignore_patterns)

\* C3: whenever stop_event is set, the records yielded are a prefix of what the
\* scan of the same answers yields when it is never set (which is what an
\* unstopped scan has yielded when it ends), and a record once yielded stays.
C3_CancellationYieldsPrefix ==
    /\ [](args.mode \in SheetScans =>
            /\ IsPrefix(yielded, ExpectedRecords)
            /\ (pc = "done" /\ ~stop_event) => yielded = ExpectedRecords)
    /\ [][IsPrefix(yielded, yielded')]_vars

\* a stopped scan that ended with some, but not all, of the records
C3_Witness ==
    /\ pc = "done" /\ stop_event /\ args.mode \in SheetScans
    /\ yielded # <<>>
    /\ Len(yielded) < Len(ExpectedRecords)

\* the requests that went out with stop_event set
LateRequests == {k \in DOMAIN log : log[k].stopped}

\* C4 (as stated): once stop_event is set, wherever the scan stands, no listing,
\* metadata or values request goes out any more.
C4_NoRequestAfterStop == args.mode \in SheetScans => LateRequests = {}

\* C4 (amended): a request goes out with stop_event set only when the event was
\* set between a stop check and the request that follows it; the scan ends at
\* its next check, so that at most one such request goes out, and two (title,
\* values) from search_in_sheet called without spreadsheet_name.
C4_NoRequestAfterNextCheck ==
    args.mode \in SheetScans =>
        /\ stop_pc \notin {"H_title", "H_fetch", "S_meta", "A_list"} => LateRequests = {}
        /\ Cardinality(LateRequests) <= (IF args.mode = "sheet" /\ ~args.name_given THEN 2 ELSE 1)
        /\ \A k \in LateRequests : \A j \in k .. Len(log) : log[j].stopped

\* stop_event was set after the start-of-unit check and the requests still went out
C4_Witness ==
    /\ pc = "done" /\ args.mode = "sheet"
    /\ stop_pc = "H_title"
    /\ Cardinality(LateRequests) = 2

\* the number of sheets the metadata answer in force at log[k] listed
SheetsAt(k) ==
    LET metas == {j \in 1..k : log[j].op = "meta"}
    IN  IF metas = {} THEN 0 ELSE log[CHOOSE j \in metas : \A i \in metas : i <= j].count

PosIn(seq, x) == CHOOSE i \in DOMAIN seq : seq[i] = x

\* the unit after the failed request log[k], if there is one, was requested
NextUnitRequested(k) ==
    CASE log[k].op = "values" ->
           log[k].sh < SheetsAt(k) =>
              \E j \in k + 1 .. Len(log) :
                 log[j].op = "values" /\ log[j].ss = log[k].ss /\ log[j].sh = log[k].sh + 1
      [] log[k].op = "meta" /\ args.mode \in {"across", "all"} ->
           PosIn(spreadsheet_list, log[k].ss) < Len(spreadsheet_list) =>
              \E j \in k + 1 .. Len(log) :
                 /\ log[j].op = "meta"
                 /\ log[j].ss = spreadsheet_list[PosIn(spreadsheet_list, log[k].ss) + 1]
      [] OTHER -> TRUE

FailedUnits == {k \in DOMAIN log : log[k].op \in {"meta", "values"} /\ ~log[k].ok}

\* C5: when a metadata request or a values request raises, no exception leaves
\* the generator (search_in_spreadsheet, search_across_spreadsheets,
\* search_in_spreadsheets), the failed unit gives no record, the scan goes on
\* with the next unit and yields exactly the records of the units that did not fail.
C5_PartialFailure ==
    LET failed == FailedUnits
    IN  (args.mode \in {"spreadsheet", "across", "all"} /\ failed # {}) =>
            /\ pc # "raised"
            /\ \A i \in DOMAIN yielded : yielded[i].unit \notin failed
            /\ \A i \in DOMAIN yielded :
                  \A k \in failed :
                     log[k].op = "meta" /\ log[k].ss = yielded[i].spreadsheetId
                        => yielded[i].unit < k
            /\ (pc = "done" /\ ~stop_event) =>
                  /\ yielded = ExpectedRecords
                  /\ \A k \in failed : NextUnitRequested(k)

\* an unstopped scan over several spreadsheets that ended after a metadata request
\* and a values request failed, with a record from a unit after them
C5_Witness ==
    /\ pc = "done" /\ ~stop_event /\ args.mode = "across"
    /\ \E k1, k2 \in FailedUnits :
          /\ log[k1].op = "meta" /\ log[k2].op = "values"
          /\ \E i \in DOMAIN yielded : yielded[i].unit > k1 /\ yielded[i].unit > k2

\* C6 (as stated): with regex=True and a pattern that does not compile,
\* search_in_sheet, search_in_spreadsheet and search_in_spreadsheets raise nothing,
\* also when every request succeeds: the scan ends normally with zero records.
C6_MalformedRegexNeverThrows ==
    (/\ args.mode \in {"sheet", "spreadsheet", "all"}
     /\ BrokenRegex
     /\ \A k \in DOMAIN log : log[k].ok) =>
        pc # "raised" /\ yielded = <<>>

\* where record r stands: spreadsheet in listed order, sheet in listed order, row, column
SpreadsheetPos(r) ==
    IF args.mode \in {"across", "all"} THEN PosIn(spreadsheet_list, r.spreadsheetId) ELSE 1

Before(r1, r2) ==
    \/ SpreadsheetPos(r1) < SpreadsheetPos(r2)
    \/ /\ SpreadsheetPos(r1) = SpreadsheetPos(r2)
       /\ \/ r1.sheetName < r2.sheetName
          \/ /\ r1.sheetName = r2.sheetName
             /\ \/ r1.row < r2.row
                \/ r1.row = r2.row /\ r1.col < r2.col

\* C7: records come in ascending row and, within a row, ascending column of the
\* resolved columns; sheets in the order the metadata listed them; spreadsheets in
\* the order they were listed; records of different units are never interleaved.
C7_OrderingGuarantee ==
    \A i \in 1 .. Len(yielded) - 1 :
        /\ Before(yielded[i], yielded[i + 1])
        /\ yielded[i].unit <= yielded[i + 1].unit
        /\ yielded[i].cell = cell_address(yielded[i].row, yielded[i].col)

\* records of two spreadsheets listed in descending id order, of two sheets of one
\* spreadsheet, and of two columns of one row
C7_Witness ==
    /\ args.mode = "across" /\ args.ids_given
    /\ \E i, j \in DOMAIN yielded : yielded[i].spreadsheetId > yielded[j].spreadsheetId /\ i < j
    /\ \E i, j \in DOMAIN yielded :
          yielded[i].spreadsheetId = yielded[j].spreadsheetId
          /\ yielded[i].sheetName < yielded[j].sheetName
    /\ \E i, j \in DOMAIN yielded :
          yielded[i].unit = yielded[j].unit /\ yielded[i].row = yielded[j].row
          /\ yielded[i].col < yielded[j].col

\* the text of the cell of row at 0-based index idx, empty when there is none
CellText(row, idx) ==
    IF idx < Len(row) /\ row[idx + 1].t # "none" THEN py_str(row[idx + 1]) ELSE <<>>

\* C10: the rate column of a sheet is the first column of its resolved header
\* row whose header contains a 'stawka' variant (looked at when the row loop is
\* entered, the answer being the last of the log); when the sheet has one, every
\* record of a row carries as stawka the text of that row at the rate column, or
\* the empty text when the row has no cell there, whichever column matched;
\* headers ["Numer zlecenia", "Stawka"] with row ["38960", "280.00"] and query
\* 38960 give exactly one record, with stawka "280.00".
C10_CompanionFromRateColumn ==
    args.mode \in SheetScans =>
        /\ pc = "H_row" =>
              log[Len(log)].stawka_idx =
                 (IF log[Len(log)].header_row = <<>> THEN NoIdx
                  ELSE find_stawka_column_index(log[Len(log)].header_row))
        /\ \A i \in DOMAIN yielded :
              RecordRateColumn(yielded[i]) # NoIdx =>
                 yielded[i].stawka =
                    CellText(RecordGrid(yielded[i])[yielded[i].row + 1],
                             RecordRateColumn(yielded[i]))
        /\ (/\ args.mode = "sheet" /\ pc = "done" /\ ~stop_event
            /\ args.pattern = PlainQuery.pattern /\ ~args.regex
            /\ args.search_column_name \in {None, ColumnALL}
            /\ args.header_row_indices = <<>>
            /\ log # <<>>
            /\ log[Len(log)].op = "values" /\ log[Len(log)].ok
            /\ log[Len(log)].grid = <<HeaderNumer, RowPlain>>) =>
               /\ Len(yielded) = 1
               /\ yielded[1].stawka = <<"2","8","0",".","0","0">>

\* one scan yielded a record with the rate of its row and a record of a row that
\* is too short to have a rate cell
C10_Witness ==
    /\ pc = "done" /\ args.mode = "sheet"
    /\ \E i, j \in DOMAIN yielded :
          /\ find_stawka_column_index(RecordHeader(yielded[i])) = 1
          /\ yielded[i].stawka = <<"2","8","0",".","0","0">>
          /\ Len(RecordGrid(yielded[j])[yielded[j].row + 1]) = 1
          /\ yielded[j].stawka = <<>>

(***************************************************************************)
(* The pure functions, called on their own.  fn_in is the call, fn_out the *)
(* result; the scan stays idle.                                            *)
(***************************************************************************)
IdleScan ==
    /\ args = CallArgs("sheet", PlainQuery, None, <<>>, <<>>, TRUE, <<>>)
    /\ stop_event = FALSE
    /\ pc = "idle"
    /\ spreadsheet_list = <<>>
    /\ ss_i = 1
    /\ sheets = 0
    /\ sh_i = 1
    /\ spreadsheet_name = NoName
    /\ frame = NoFrame
    /\ result = NoResult
    /\ yielded = <<>>
    /\ log = <<>>
    /\ stop_pc = "none"
    /\ window = <<>>

\* ---- normalize_number_string on the renderings of one integer ----
\* an integer as its groups of digits: a leading group and groups of three
LeadGroups == {<<"1">>, <<"3","8">>, <<"9","9","9">>}
TailGroups == {<<"9","6","0">>, <<"0","0","0">>, <<"0","0","7">>}
GroupedNumbers ==
    {<<l>> \o t : l \in LeadGroups,
                  t \in {<<a>> : a \in TailGroups} \cup {<<a, b>> : a, b \in TailGroups}}
Renderings == {"plain", "space", "nbsp", "nnbsp", "comma", "int", "float"}

RECURSIVE NatOf(_)
NatOf(s) ==
    IF s = <<>> THEN 0
    ELSE 10 * NatOf(SubSeq(s, 1, Len(s) - 1))
         + (CHOOSE d \in 0..9 : Digits[d + 1] = s[Len(s)])

\* the value handed to normalize_number_string for rendering r of the number
Render(groups, r) ==
    CASE r = "plain" -> Str(py_join(<<>>, groups))
      [] r = "space" -> Str(py_join(<<" ">>, groups))
      [] r = "nbsp" -> Str(py_join(<<"NBSP">>, groups))
      [] r = "nnbsp" -> Str(py_join(<<"NNBSP">>, groups))
      [] r = "comma" -> Str(py_join(<<",">>, groups))
      [] r = "int" -> IntVal(NatOf(py_join(<<>>, groups)))
      [] OTHER -> FloatVal(NatOf(py_join(<<>>, groups)))

NormCalls ==
    {[fn |-> "normalize_number_string", groups |-> g, r1 |-> r1, r2 |-> r2] :
        g \in GroupedNumbers, r1 \in Renderings, r2 \in Renderings}

InitNorm == IdleScan /\ fn_in \in NormCalls /\ fn_out = NoCall

Call_normalize_number_string ==
    /\ pc = "idle"
    /\ fn_in.fn = "normalize_number_string"
    /\ fn_out = NoCall
    /\ fn_out' = [fn |-> "normalize_number_string",
                  v1 |-> normalize_number_string(Render(fn_in.groups, fn_in.r1)),
                  v2 |-> normalize_number_string(Render(fn_in.groups, fn_in.r2))]
    /\ UNCHANGED <<scan_vars, fn_in>>

NextNorm == Call_normalize_number_string
SpecNorm == InitNorm /\ [][NextNorm]_vars

\* ---- find_all_column_indices_by_name ----
MaxHeaderLen == 3
HeaderCells ==
    {Str(<<"Z","l","e","c","e","n","i","e">>), Str(<<" ","Z","L","E","C","E","N","I","E"," ">>),
     Str(<<"N","u","m","e","r","_","Z","l","e","c","e","n","i","a">>),
     Str(<<"n","u","m","e","r"," "," ","z","l","e","c","e","n","i","a">>),
     None, Str(<<>>)}
ColumnNames ==
    {Str(<<"z","l","e","c","e","n","i","e">>),
     Str(<<"N","u","m","e","r"," ","z","l","e","c","e","n","i","a">>),
     Str(<<"Z","L","E","C","E","N","I","E">>), Str(<<" ">>), Str(<<>>), None}
ColumnIgnoreLists ==
    {<<>>, << <<"n","u","m","e","r","*">> >>, << <<"*","L","E","C","E","N","I","E">> >>}

ColsCalls ==
    {[fn |-> "find_all_column_indices_by_name", header_row |-> h, column_name |-> n,
      ignore_patterns |-> p] :
        h \in SeqsUpTo(HeaderCells, MaxHeaderLen), n \in ColumnNames, p \in ColumnIgnoreLists}

InitCols == IdleScan /\ fn_in \in ColsCalls /\ fn_out = NoCall

Call_find_all_column_indices_by_name ==
    /\ pc = "idle"
    /\ fn_in.fn = "find_all_column_indices_by_name"
    /\ fn_out = NoCall
    /\ fn_out' = [fn |-> "find_all_column_indices_by_name",
                  v |-> find_all_column_indices_by_name(fn_in.header_row, fn_in.column_name,
                                                        fn_in.ignore_patterns)]
    /\ UNCHANGED <<scan_vars, fn_in>>

NextCols == Call_find_all_column_indices_by_name
SpecCols == InitCols /\ [][NextCols]_vars

\* ---- check_match, regex off ----
UrlCell == <<"h","t","t","p","s",":","/","/","x",".","c","o","m","/","o","r","d","e","r","/",
             "3","8","9","6","0">>
MatchQueries ==
    {<<"3","8","9","6","0">>, <<"3","8"," ","9","6","0">>, <<"a","b","c">>, <<"A","B","C">>,
     <<".">>, <<"x",".","c","o","m">>, <<"o","r","d","e","r">>}
MatchCells ==
    {<<"3","8","9","6","0">>, <<"3","8"," ","9","6","0">>, <<"3","8",",","9","6","0">>,
     <<"1","3","8","9","6","0">>, UrlCell,
     <<"w","w","w",".","a",".","p","l","/","1",".","5">>,
     <<"W","w","w",".","A",".","p","l","/","3","8"," ","9","6","0">>,
     <<"h","t","t","p",":","/","/","h","/","7">>,
     <<"a","b","c">>, <<"A","B","C"," ","7">>, <<"x">>, <<>>}

MatchCalls ==
    {[fn |-> "check_match", q |-> q, c |-> c, case_sensitive |-> cs] :
        q \in MatchQueries, c \in MatchCells, cs \in BOOLEAN}

InitMatch == IdleScan /\ fn_in \in MatchCalls /\ fn_out = NoCall

Call_check_match ==
    /\ pc = "idle"
    /\ fn_in.fn = "check_match"
    /\ fn_out = NoCall
    /\ fn_out' = [fn |-> "check_match",
                  v |-> check_match(fn_in.c, fn_in.q, FALSE, fn_in.case_sensitive)]
    /\ UNCHANGED <<scan_vars, fn_in>>

NextMatch == Call_check_match
SpecMatch == InitMatch /\ [][NextMatch]_vars

(***************************************************************************)
(* Properties of the pure functions.                                       *)
(***************************************************************************)
\* C2: find_all_column_indices_by_name returns exactly the strictly ascending list
\* of the indices whose header is not None, has the normalized name of the column
\* name and matches no ignore pattern; an empty or None name gives the empty list.
C2_MultiColumnResolution ==
    fn_out.fn = "find_all_column_indices_by_name" =>
        IF fn_in.column_name.t = "none" \/ fn_in.column_name.s = <<>>
        THEN fn_out.v = <<>>
        ELSE /\ \A k \in 1 .. Len(fn_out.v) - 1 : fn_out.v[k] < fn_out.v[k + 1]
             /\ {fn_out.v[k] : k \in DOMAIN fn_out.v} =
                  {i \in 0 .. Len(fn_in.header_row) - 1 :
                      /\ fn_in.header_row[i + 1].t # "none"
                      /\ normalize_header_name(fn_in.header_row[i + 1])
                           = normalize_header_name(fn_in.column_name)
                      /\ ~matches_ignore_pattern(py_str(fn_in.header_row[i + 1]),
                                                 fn_in.ignore_patterns)}

\* two headers that differ in case and spacing resolve to two columns, in index
\* order, around a column of another name that an ignore pattern matches
C2_Witness ==
    /\ fn_out.fn = "find_all_column_indices_by_name"
    /\ Len(fn_in.header_row) = 3
    /\ fn_in.ignore_patterns # <<>>
    /\ fn_out.v = <<0, 2>>
    /\ fn_in.header_row[1] # fn_in.header_row[3]
    /\ fn_in.header_row[2].t # "none"
    /\ matches_ignore_pattern(py_str(fn_in.header_row[2]), fn_in.ignore_patterns)

\* the digits of the number
PlainDigits(groups) == py_join(<<>>, groups)

\* C8 (as stated): the renderings of one integer (with a space, NBSP or comma as
\* thousands separator, as an int, as a float with zero fraction) all normalize
\* to the same string.
C8_NumericEquivalence ==
    fn_out.fn = "normalize_number_string" => fn_out.v1 = fn_out.v2

\* what normalize_number_string makes of rendering r of the number
NormalizedAs(groups, r) ==
    CASE r = "comma" -> py_join(<<".">>, groups)
      [] r = "float" -> PlainDigits(groups) \o <<".", "0">>
      [] OTHER -> PlainDigits(groups)

\* C8 (amended): an integer written plainly, as an int, or with a space, NBSP or
\* narrow NBSP as thousands separator normalizes to its digits, one and the same
\* string; a comma becomes a dot and stays, and a float keeps its ".0".
C8_SpaceGroupedEquivalence ==
    fn_out.fn = "normalize_number_string" =>
        /\ fn_out.v1 = NormalizedAs(fn_in.groups, fn_in.r1)
        /\ fn_out.v2 = NormalizedAs(fn_in.groups, fn_in.r2)
        /\ ({fn_in.r1, fn_in.r2} \subseteq {"plain", "int", "space", "nbsp", "nnbsp"}
               => fn_out.v1 = fn_out.v2)

\* "38 960" and "38,960" were normalized: to "38960" and to "38.960"
C8_Witness ==
    /\ fn_out.fn = "normalize_number_string"
    /\ fn_in.groups = << <<"3","8">>, <<"9","6","0">> >>
    /\ fn_in.r1 = "space" /\ fn_in.r2 = "comma"
    /\ fn_out.v1 = <<"3","8","9","6","0">>
    /\ fn_out.v2 = <<"3","8",".","9","6","0">>

\* (a) q is contained in c, case-insensitively unless case_sensitive
ContainedIn(q, c, case_sensitive) ==
    IF case_sensitive THEN py_in(q, c) ELSE py_in(py_lower(q), py_lower(c))

\* (b) q and c each contain a digit and the normalized q is in the normalized c
NumericallyIn(q, c) ==
    /\ HasDigit(q) /\ HasDigit(c)
    /\ py_in(normalize_number_string(Str(q)), normalize_number_string(Str(c)))

\* (c) c holds a URL marker and the normalized q is in a normalized numeric token of c
InUrlToken(q, c) ==
    /\ \/ py_in(<<"h","t","t","p",":","/","/">>, c)
       \/ py_in(<<"h","t","t","p","s",":","/","/">>, c)
       \/ py_in(<<"w","w","w",".">>, c)
    /\ \E k \in DOMAIN extract_numeric_tokens(c) :
          py_in(normalize_number_string(Str(q)),
                normalize_number_string(Str(extract_numeric_tokens(c)[k])))

\* C9 (as stated): with regex off, check_match(c) is true iff (a) or (b) or (c).
C9_MatcherLadder ==
    fn_out.fn = "check_match" =>
        (fn_out.v <=> \/ ContainedIn(fn_in.q, fn_in.c, fn_in.case_sensitive)
                      \/ NumericallyIn(fn_in.q, fn_in.c)
                      \/ InUrlToken(fn_in.q, fn_in.c))

\* C9 (amended): with regex off, check_match(c) is true iff (a) or (b) or, for a
\* query that contains a digit, (c); the query 38960 matches the cell
\* "https://x.com/order/38960" and the cell "38 960".
C9_MatcherLadderForDigitQueries ==
    fn_out.fn = "check_match" =>
        /\ fn_out.v <=> \/ ContainedIn(fn_in.q, fn_in.c, fn_in.case_sensitive)
                        \/ NumericallyIn(fn_in.q, fn_in.c)
                        \/ HasDigit(fn_in.q) /\ InUrlToken(fn_in.q, fn_in.c)
        /\ (/\ fn_in.q = <<"3","8","9","6","0">>
            /\ fn_in.c \in {UrlCell, <<"3","8"," ","9","6","0">>}) => fn_out.v

\* the query 38960 matched "38 960", which does not contain it
C9_Witness ==
    /\ fn_out.fn = "check_match"
    /\ fn_in.q = <<"3","8","9","6","0">>
    /\ fn_in.c = <<"3","8"," ","9","6","0">>
    /\ ~ContainedIn(fn_in.q, fn_in.c, fn_in.case_sensitive)
    /\ fn_out.v

\* the header of the column at 0-based index idx names a word of the blacklist
HeaderNamesBlacklisted(header, idx) ==
    /\ idx < Len(header)
    /\ header[idx + 1].t # "none"
    /\ \E w \in DOMAIN COLUMN_BLACKLIST :
          py_in(COLUMN_BLACKLIST[w], py_lower(py_str(header[idx + 1])))

\* C11: when the sheet has no rate column, every record carries as stawka the
\* text of the cell immediately to the right of the matched cell, or the empty
\* text when the row has no cell there; and the empty text whenever the header
\* of that right-hand column contains a blacklisted word.
C11_FallbackCompanion ==
    args.mode \in SheetScans =>
        \A i \in DOMAIN yielded :
            RecordRateColumn(yielded[i]) = NoIdx =>
               yielded[i].stawka =
                  (IF HeaderNamesBlacklisted(RecordHeader(yielded[i]), yielded[i].col + 1)
                   THEN <<>>
                   ELSE CellText(RecordGrid(yielded[i])[yielded[i].row + 1],
                                 yielded[i].col + 1))

\* one scan of a sheet without rate column yielded a record whose right-hand
\* cell has text under a blacklisted header and a record that carries the text
\* of its right-hand cell
C11_Witness ==
    /\ args.mode = "sheet" /\ pc = "done"
    /\ \A i \in DOMAIN yielded : RecordRateColumn(yielded[i]) = NoIdx
    /\ \E i \in DOMAIN yielded :
          /\ HeaderNamesBlacklisted(RecordHeader(yielded[i]), yielded[i].col + 1)
          /\ CellText(RecordGrid(yielded[i])[yielded[i].row + 1], yielded[i].col + 1) # <<>>
          /\ yielded[i].stawka = <<>>
    /\ \E i \in DOMAIN yielded :
          /\ yielded[i].stawka # <<>>
          /\ ~HeaderNamesBlacklisted(RecordHeader(yielded[i]), yielded[i].col + 1)

(***************************************************************************)
(* find_duplicates_in_sheet.  An occurrence is [row, raw, key]: the        *)
(* 1-based row number, the text of the cell and the key it is grouped by;  *)
(* value_occurrences is kept as the sequence of the occurrences of one     *)
(* column in row order, a key of the dict being the key of its first       *)
(* occurrence.                                                             *)
(***************************************************************************)
\* lines 1456-1464: the key of the text cell_value
normalized(cell_value, normalize) ==
    IF ~normalize THEN cell_value
    ELSE IF normalize_number_string(Str(cell_value)) # <<>>
         THEN normalize_number_string(Str(cell_value))
    ELSE py_lower(py_strip(cell_value))

\* lines 1440-1476: the occurrences of column target_col_idx
value_occurrences(values, start_row, target_col_idx, normalize) ==
    LET cell(i) == get_cell_value_safe(values[start_row + i], target_col_idx)
        all == [i \in 1 .. Len(values) - start_row |->
                  IF cell(i).t = "none" THEN [row |-> 0, raw |-> <<>>, key |-> <<>>]
                  ELSE [row |-> start_row + i, raw |-> cell(i).s,
                        key |-> normalized(cell(i).s, normalize)]]
    IN  SelectSeq(all, LAMBDA o : py_strip(o.raw) # <<>>)

\* line 1490-1492
column_display_name(search_column_name, target_col_idx, several) ==
    IF several
    THEN py_str(search_column_name) \o <<" ","(","k","o","l","u","m","n","a"," ">>
         \o col_index_to_a1(target_col_idx) \o <<")">>
    ELSE py_str(search_column_name)

\* Faulty variant of duplicates_of_column: every occurrence is a sample cell.
duplicates_with_all_samples(occ, unit, label, target_col_idx) ==
    LET firsts == SelectSeq([i \in 1..Len(occ) |-> i], LAMBDA i :
                     /\ \A j \in 1..(i - 1) : occ[j].key # occ[i].key
                     /\ \E j \in (i + 1)..Len(occ) : occ[j].key = occ[i].key)
        occurrences(i) == SelectSeq(occ, LAMBDA o : o.key = occ[i].key)
    IN  [k \in 1..Len(firsts) |->
           [spreadsheetId |-> unit.ss, spreadsheetName |-> unit.name, sheetName |-> unit.sh,
            columnName |-> label, col |-> target_col_idx,
            value |-> occ[firsts[k]].raw,
            count |-> Len(occurrences(firsts[k])),
            rows |-> [n \in 1..Len(occurrences(firsts[k])) |-> occurrences(firsts[k])[n].row],
            sample_cells |-> [n \in 1..Len(occurrences(firsts[k])) |->
                                 occurrences(firsts[k])[n].raw]]]

\* lines 1478-1502: the groups of one column, in the order of the dict (the
\* order in which the keys first occurred)
duplicates_of_column(occ, unit, label, target_col_idx) ==
    LET firsts == SelectSeq([i \in 1..Len(occ) |-> i], LAMBDA i :
                     /\ \A j \in 1..(i - 1) : occ[j].key # occ[i].key
                     /\ \E j \in (i + 1)..Len(occ) : occ[j].key = occ[i].key)
        occurrences(i) == SelectSeq(occ, LAMBDA o : o.key = occ[i].key)
    IN  [k \in 1..Len(firsts) |->
           [spreadsheetId |-> unit.ss, spreadsheetName |-> unit.name, sheetName |-> unit.sh,
            columnName |-> label, col |-> target_col_idx,
            value |-> occ[firsts[k]].raw,
            count |-> Len(occurrences(firsts[k])),
            rows |-> [n \in 1..Len(occurrences(firsts[k])) |-> occurrences(firsts[k])[n].row],
            sample_cells |-> [n \in 1..MinOf({5, Len(occurrences(firsts[k]))}) |->
                                 occurrences(firsts[k])[n].raw]]]

\* lines 1437-1504: for target_col_idx in target_col_indices, from position k on
RECURSIVE all_duplicates(_, _, _, _, _, _, _)
all_duplicates(values, start_row, target_col_indices, k, search_column_name, normalize, unit) ==
    IF k > Len(target_col_indices) THEN <<>>
    ELSE duplicates_of_column(
             value_occurrences(values, start_row, target_col_indices[k], normalize), unit,
             column_display_name(search_column_name, target_col_indices[k],
                                 Len(target_col_indices) > 1),
             target_col_indices[k])
         \o all_duplicates(values, start_row, target_col_indices, k + 1, search_column_name,
                           normalize, unit)

\* lines 1415-1504: from the values of the sheet to the list returned, when no
\* stop check finds the event set
find_duplicates_in_sheet(values, search_column_name, normalize, unit) ==
    IF values = <<>> THEN <<>>
    ELSE LET d == detect_header_row(values, search_column_name, <<>>)
         IN  IF d.header_row = <<>> THEN <<>>
             ELSE all_duplicates(values, d.start_data_row,
                      find_all_column_indices_by_name(d.header_row, search_column_name, <<>>),
                      1, search_column_name, normalize, unit)

\* ---- find_duplicates_in_sheet ----
MaxDupRows == 4
DupHeader == <<Str(<<"Z","l","e","c","e","n","i","e">>), Str(<<"U","w","a","g","i">>),
               Str(<<"Z","L","E","C","E","N","I","E">>)>>
DupRowFirst == <<Str(<<"1","2","3","4","5">>), None, Str(<<"A","B","C","-","0","0","1">>)>>
DupRows ==
    {DupRowFirst,
     <<Str(<<"1","2"," ","3","4","5">>), None, Str(<<"X","Y","Z","-","0","0","1">>)>>,
     <<Str(<<"6","7","8","9","0">>)>>,
     <<Str(<<" ","a","b","c"," ">>), None, Str(<<"1","2","3","4","5">>)>>,
     <<Str(<<"A","b","c">>), Str(<<"x">>), Str(<<" ">>)>>}
\* the sheets: a header row, the data rows, and below them none or four more
\* rows that are all alike
DupGrids ==
    {<<>>}
    \cup {<<DupHeader>> \o rows \o more :
             rows \in SeqsUpTo(DupRows, MaxDupRows),
             more \in {<<>>, <<DupRowFirst, DupRowFirst, DupRowFirst, DupRowFirst>>}}
DupCalls ==
    {[fn |-> "find_duplicates_in_sheet", values |-> g, search_column_name |-> c.name,
      normalize |-> c.normalize] :
        g \in DupGrids,
        c \in {[name |-> ColumnZlecenie, normalize |-> TRUE],
               [name |-> ColumnZlecenie, normalize |-> FALSE],
               [name |-> Str(<<"U","w","a","g","i">>), normalize |-> TRUE]}}

InitDup == IdleScan /\ fn_in \in DupCalls /\ fn_out = NoCall

\* lines 1388-1504: a stop check finds the event set (the one on entry or one
\* of the row loop), or the values request fails, or the groups are returned;
\* the title request of lines 1393-1401 fails or not
Call_find_duplicates_in_sheet ==
    /\ pc = "idle"
    /\ fn_in.fn = "find_duplicates_in_sheet"
    /\ fn_out = NoCall
    /\ \E stopped \in BOOLEAN, title_ok \in BOOLEAN, values_ok \in BOOLEAN :
          /\ stopped => title_ok /\ values_ok
          /\ ~values_ok => title_ok
          /\ fn_out' = [fn |-> "find_duplicates_in_sheet", stopped |-> stopped,
                        values_ok |-> values_ok,
                        duplicates |->
                           IF stopped \/ ~values_ok THEN <<>>
                           ELSE find_duplicates_in_sheet(fn_in.values,
                                    fn_in.search_column_name, fn_in.normalize,
                                    [ss |-> 1, sh |-> 1,
                                     name |-> [kind |-> IF title_ok THEN "title" ELSE "id",
                                               id |-> 1]])]
    /\ UNCHANGED <<scan_vars, fn_in>>

NextDup == Call_find_duplicates_in_sheet
SpecDup == InitDup /\ [][NextDup]_vars

\* a call of find_duplicates_in_sheet that returned the groups of a sheet
DupDone ==
    /\ fn_out.fn = "find_duplicates_in_sheet"
    /\ ~fn_out.stopped /\ fn_out.values_ok
    /\ fn_in.values # <<>>
\* the physical columns of the name (0-based), the cell of row r (1-based)
DupColumns ==
    {c \in 0 .. Len(fn_in.values[1]) - 1 :
        /\ fn_in.values[1][c + 1].t # "none"
        /\ normalize_header_name(fn_in.values[1][c + 1])
              = normalize_header_name(fn_in.search_column_name)}
DupCell(r, c) == CellText(fn_in.values[r], c)
\* the normalized value of every cell of the sheet, blank cells apart
DupKeys ==
    [r \in 2 .. Len(fn_in.values) |->
        [c \in DupColumns |->
            IF py_strip(DupCell(r, c)) = <<>> THEN None
            ELSE Str(normalized(DupCell(r, c), fn_in.normalize))]]
\* the data rows of column c that hold the normalized value of row r
DupRowsOf(keys, r, c) ==
    {q \in DOMAIN keys : keys[q][c] # None /\ keys[q][c] = keys[r][c]}

\* C12: for a sheet whose first row is the header with the target column,
\* find_duplicates_in_sheet returns, for each physical column of the name on
\* its own, exactly one group per normalized value that occurs in at least two
\* data rows of that column: rows are the 1-based numbers of the occurrences in
\* ascending order, count their number, value the text of the first occurrence,
\* sample_cells the texts of the first min(5, count) occurrences; a value that
\* occurs once gives no group; the values 12345, 12345, 67890, 12345 of rows 2
\* to 5 give one group with rows [2, 3, 5] and count 3.
C12_DuplicateGroups ==
    DupDone =>
        LET keys == DupKeys
        IN  /\ \A i \in DOMAIN fn_out.duplicates :
                  LET g == fn_out.duplicates[i]
                  IN  /\ g.col \in DupColumns
                      /\ g.count = Len(g.rows) /\ g.count >= 2
                      /\ \A n \in 1 .. Len(g.rows) - 1 : g.rows[n] < g.rows[n + 1]
                      /\ g.rows[1] \in DOMAIN keys
                      /\ {g.rows[n] : n \in DOMAIN g.rows} = DupRowsOf(keys, g.rows[1], g.col)
                      /\ g.value = DupCell(g.rows[1], g.col)
                      /\ g.sample_cells =
                            [n \in 1 .. (IF g.count < 5 THEN g.count ELSE 5) |->
                                DupCell(g.rows[n], g.col)]
            /\ \A c \in DupColumns, r \in DOMAIN keys :
                  keys[r][c] # None =>
                     Cardinality({i \in DOMAIN fn_out.duplicates :
                                     /\ fn_out.duplicates[i].col = c
                                     /\ \E n \in DOMAIN fn_out.duplicates[i].rows :
                                           fn_out.duplicates[i].rows[n] = r})
                        = (IF Cardinality(DupRowsOf(keys, r, c)) >= 2 THEN 1 ELSE 0)
            /\ (/\ Len(fn_in.values) = 5
                /\ \A r \in {2, 3, 5} : DupCell(r, 0) = <<"1","2","3","4","5">>
                /\ DupCell(4, 0) = <<"6","7","8","9","0">>
                /\ 0 \in DupColumns) =>
                   \E i \in DOMAIN fn_out.duplicates :
                      /\ fn_out.duplicates[i].col = 0
                      /\ fn_out.duplicates[i].rows = <<2, 3, 5>>
                      /\ fn_out.duplicates[i].count = 3
                      /\ \A j \in DOMAIN fn_out.duplicates :
                            fn_out.duplicates[j].col = 0 => j = i

\* a sheet with two physical columns of the name: a group of more than five
\* rows in one column, its value standing in a single row of the other
C12_Witness ==
    /\ DupDone
    /\ Cardinality(DupColumns) = 2
    /\ \E i \in DOMAIN fn_out.duplicates, c \in DupColumns :
          /\ fn_out.duplicates[i].count > 5
          /\ Len(fn_out.duplicates[i].sample_cells) = 5
          /\ fn_out.duplicates[i].col # c
          /\ Cardinality({r \in 2 .. Len(fn_in.values) :
                            normalized(DupCell(r, c), fn_in.normalize)
                               = normalized(fn_out.duplicates[i].value, fn_in.normalize)}) = 1

\* a text that reads as a number: digits with separators, a sign, a decimal mark
LooksNumeric(s) ==
    /\ HasDigit(s)
    /\ \A i \in DOMAIN s : IsDigit(s[i]) \/ IsSpace(s[i]) \/ s[i] \in {".", ",", "-"}
\* the same number, or the same text up to case and surrounding whitespace
SameNumberOrText(a, b) ==
    \/ py_lower(py_strip(a)) = py_lower(py_strip(b))
    \/ /\ LooksNumeric(a) /\ LooksNumeric(b)
       /\ normalize_number_string(Str(a)) = normalize_number_string(Str(b))

\* C13: with normalize on, two cells of one column are in the same group only
\* if they are the same number or the same text up to case and surrounding
\* whitespace; two different texts such as ABC-001 and XYZ-001 are never in one
\* group.
C13_DuplicateKeyNormalization ==
    (DupDone /\ fn_in.normalize) =>
        \A i \in DOMAIN fn_out.duplicates :
            \A m, n \in DOMAIN fn_out.duplicates[i].rows :
                SameNumberOrText(DupCell(fn_out.duplicates[i].rows[m], fn_out.duplicates[i].col),
                                 DupCell(fn_out.duplicates[i].rows[n], fn_out.duplicates[i].col))

\* ---- matches_ignore_pattern, matches_ignore_value ----
MaxPatterns == 2
IgnoreCandidates ==
    {<<"t","e","m","p","o","r","a","r","y">>, <<"o","l","d","_","t","e","m","p">>,
     <<" ","M","y","_","T","e","s","t"," ","C","o","l"," ">>, <<"t","e","s","t">>,
     <<"*","t","e","s","t">>, <<"x","_","o","l","d">>, <<" ">>, <<>>}
IgnorePatterns ==
    {<<"t","e","m","p","*">>, <<"*","t","e","m","p">>, <<"*","t","e","s","t","*">>,
     <<" ","T","E","S","T"," ">>, <<"*">>, <<"*","*">>, <<"*","*","t","e","s","t">>,
     <<"m","*","t","*">>, <<"*","_","o","l","d">>, <<" ">>, <<>>}
IgnoreCalls ==
    {[fn |-> "matches_ignore", candidate |-> c, ignore_patterns |-> p] :
        c \in IgnoreCandidates, p \in SeqsUpTo(IgnorePatterns, MaxPatterns)}

InitIgnore == IdleScan /\ fn_in \in IgnoreCalls /\ fn_out = NoCall

Call_matches_ignore ==
    /\ pc = "idle"
    /\ fn_in.fn = "matches_ignore"
    /\ fn_out = NoCall
    /\ fn_out' = [fn |-> "matches_ignore",
                  pattern |-> matches_ignore_pattern(fn_in.candidate, fn_in.ignore_patterns),
                  value |-> matches_ignore_value(fn_in.candidate, fn_in.ignore_patterns)]
    /\ UNCHANGED <<scan_vars, fn_in>>

NextIgnore == Call_matches_ignore
SpecIgnore == InitIgnore /\ [][NextIgnore]_vars

\* the wildcard rules as stated: p is the trimmed, lowercased pattern, n the
\* normalized candidate, t whatever stands between or beside the stars
WildcardAsStated(p, n) ==
    /\ p # <<>>
    /\ \/ /\ Len(p) >= 2 /\ p[1] = "*" /\ p[Len(p)] = "*"
          /\ py_in(SubSeq(p, 2, Len(p) - 1), n)
       \/ p[1] = "*" /\ py_endswith(n, SubSeq(p, 2, Len(p)))
       \/ p[Len(p)] = "*" /\ py_startswith(n, SubSeq(p, 1, Len(p) - 1))
       \/ p[1] # "*" /\ p[Len(p)] # "*" /\ py_in(p, n)
\* the rules with the stars read in this order: both ends, leading, trailing,
\* none; the text t left over has to be non-empty
WildcardRule(p, n) ==
    /\ p # <<>>
    /\ IF p[1] = "*" /\ p[Len(p)] = "*"
       THEN Len(p) > 2 /\ py_in(SubSeq(p, 2, Len(p) - 1), n)
       ELSE IF p[1] = "*" THEN py_endswith(n, SubSeq(p, 2, Len(p)))
       ELSE IF p[Len(p)] = "*" THEN py_startswith(n, SubSeq(p, 1, Len(p) - 1))
       ELSE py_in(p, n)
IgnoreCalled == fn_out.fn = "matches_ignore"
HeaderForm == normalize_header_name(Str(fn_in.candidate))
ValueForm == py_lower(py_strip(fn_in.candidate))

\* C14 (as stated): matches_ignore_pattern and matches_ignore_value return
\* true iff some non-empty trimmed, lowercased pattern p is '*t*' and the
\* normalized candidate contains t, or '*t' and it ends with t, or 't*' and it
\* starts with t, or has no leading or trailing '*' and the candidate contains
\* p; an empty list and an empty candidate never match.
C14_WildcardSemantics ==
    IgnoreCalled =>
        /\ fn_out.pattern <=>
              /\ HeaderForm # <<>>
              /\ \E k \in DOMAIN fn_in.ignore_patterns :
                    WildcardAsStated(py_lower(py_strip(fn_in.ignore_patterns[k])), HeaderForm)
        /\ fn_out.value <=>
              /\ ValueForm # <<>>
              /\ \E k \in DOMAIN fn_in.ignore_patterns :
                    WildcardAsStated(py_lower(py_strip(fn_in.ignore_patterns[k])), ValueForm)

\* C14 (amended): the same with the stars of p read in the order both ends
\* (a lone '*' included), leading, trailing, none, and with the text t that is
\* left required to be non-empty: the patterns '*' and '**' match nothing.
C14_WildcardSemanticsNonEmptyTerm ==
    IgnoreCalled =>
        /\ fn_out.pattern <=>
              /\ HeaderForm # <<>>
              /\ \E k \in DOMAIN fn_in.ignore_patterns :
                    WildcardRule(py_lower(py_strip(fn_in.ignore_patterns[k])), HeaderForm)
        /\ fn_out.value <=>
              /\ ValueForm # <<>>
              /\ \E k \in DOMAIN fn_in.ignore_patterns :
                    WildcardRule(py_lower(py_strip(fn_in.ignore_patterns[k])), ValueForm)

\* a bare pattern matched inside a longer candidate, by both functions, while
\* a lone star in the same list matched nothing on its own
C14_Witness ==
    /\ IgnoreCalled
    /\ fn_in.candidate = <<" ","M","y","_","T","e","s","t"," ","C","o","l"," ">>
    /\ fn_in.ignore_patterns = << <<"*">>, <<" ","T","E","S","T"," ">> >>
    /\ fn_out.pattern /\ fn_out.value

\* ---- search_in_sheet with and without ignore patterns ----
SheetCalls ==
    {[fn |-> "search_in_sheet", grid |-> g, a |-> a] :
        g \in SheetGrids, a \in {x \in SheetArgs : ~(x.regex /\ ~re_compiles(x.pattern))}}

InitSheet == IdleScan /\ fn_in \in SheetCalls /\ fn_out = NoCall

\* search_in_sheet run to its end twice on the same values: with the ignore
\* patterns of the call, and with none
Call_search_in_sheet ==
    /\ pc = "idle"
    /\ fn_in.fn = "search_in_sheet"
    /\ fn_out = NoCall
    /\ \E rs \in {resolve_sheet(fn_in.grid, fn_in.a.search_column_name,
                                fn_in.a.ignore_patterns, fn_in.a.header_row_indices)},
          rs0 \in {resolve_sheet(fn_in.grid, fn_in.a.search_column_name, <<>>,
                                 fn_in.a.header_row_indices)} :
          fn_out' = [fn |-> "search_in_sheet",
                     stawka_idx |-> rs.stawka_idx,
                     records |-> ResolvedRecords(ThisUnit, [ok |-> TRUE, grid |-> fn_in.grid],
                                                 rs, fn_in.a),
                     plain_stawka_idx |-> rs0.stawka_idx,
                     plain_records |->
                        ResolvedRecords(ThisUnit, [ok |-> TRUE, grid |-> fn_in.grid], rs0,
                                        [fn_in.a EXCEPT !.ignore_patterns = <<>>])]
    /\ UNCHANGED <<scan_vars, fn_in>>

NextSheet == Call_search_in_sheet
SpecSheet == InitSheet /\ [][NextSheet]_vars

\* s is t with some of its entries left out
RECURSIVE IsSubsequence(_, _)
IsSubsequence(s, t) ==
    IF s = <<>> THEN TRUE
    ELSE IF t = <<>> THEN FALSE
    ELSE IF Head(s) = Head(t) THEN IsSubsequence(Tail(s), Tail(t))
    ELSE IsSubsequence(s, Tail(t))

\* C15: for the same values, query, column and header rows, the records
\* search_in_sheet yields with ignore patterns are a subsequence of the records
\* it yields without: every surviving record is the same record (cell,
\* searchedValue, stawka), the rate column is the same; with no ignore patterns
\* the two sequences are equal.
C15_IgnoreOnlyRemoves ==
    fn_out.fn = "search_in_sheet" =>
        /\ IsSubsequence(fn_out.records, fn_out.plain_records)
        /\ fn_out.stawka_idx = fn_out.plain_stawka_idx
        /\ fn_in.a.ignore_patterns = <<>> => fn_out.records = fn_out.plain_records

\* ignore patterns removed a record from between two others, and the records
\* that stayed carry a rate
C15_Witness ==
    /\ fn_out.fn = "search_in_sheet"
    /\ fn_in.a.ignore_patterns # <<>>
    /\ Len(fn_out.plain_records) >= 3
    /\ \E i \in 2 .. Len(fn_out.plain_records) - 1 :
          /\ \A k \in DOMAIN fn_out.records : fn_out.records[k] # fn_out.plain_records[i]
          /\ \E k \in DOMAIN fn_out.records : fn_out.records[k] = fn_out.plain_records[i - 1]
          /\ \E k \in DOMAIN fn_out.records : fn_out.records[k] = fn_out.plain_records[i + 1]
    /\ \E k \in DOMAIN fn_out.records : fn_out.records[k].stawka # <<>>

\* ---- normalize_header_name and normalize_number_string applied twice ----
MaxTextLen == 3
TextChars == {"Z", "l", "_", " ", "NBSP", "3", ",", "-"}
TextValues ==
    {Str(s) : s \in SeqsUpTo(TextChars, MaxTextLen)}
    \cup {None, IntVal(38960), IntVal(-7), FloatVal(38960)}

InitTwice == IdleScan /\ fn_in \in {[fn |-> "normalize", value |-> v] : v \in TextValues}
             /\ fn_out = NoCall

Call_normalize_twice ==
    /\ pc = "idle"
    /\ fn_in.fn = "normalize"
    /\ fn_out = NoCall
    /\ fn_out' = [fn |-> "normalize",
                  header |-> normalize_header_name(fn_in.value),
                  header2 |-> normalize_header_name(Str(normalize_header_name(fn_in.value))),
                  number |-> normalize_number_string(fn_in.value),
                  number2 |-> normalize_number_string(
                                 Str(normalize_number_string(fn_in.value)))]
    /\ UNCHANGED <<scan_vars, fn_in>>

NextTwice == Call_normalize_twice
SpecTwice == InitTwice /\ [][NextTwice]_vars

\* C16: normalize_header_name and normalize_number_string applied to their own
\* result give that result again; both answer every input, None with the empty
\* string.
C16_NormalizationIdempotence ==
    fn_out.fn = "normalize" =>
        /\ fn_out.header2 = fn_out.header
        /\ fn_out.number2 = fn_out.number
        /\ fn_in.value = None => fn_out.header = <<>> /\ fn_out.number = <<>>

\* a text with a capital, an underscore and a digit was normalized both ways
C16_Witness ==
    /\ fn_out.fn = "normalize"
    /\ fn_in.value = Str(<<"Z", "_", "3">>)
    /\ fn_out.header = <<"z", " ", "3">>
    /\ fn_out.number = <<"3">>

\* ---- detect_header_row ----
MaxTopRows == 3
HeaderOther == <<Str(<<"K","l","i","e","n","t">>), Str(<<"M","i","a","s","t","o">>)>>
TopRows ==
    {HeaderNumer, HeaderZlecenie, HeaderOther, RowAbove, RowPlain, <<>>,
     <<None, Str(<<" ","N","r","_","z","l"," ">>), Str(<<" ">>)>>}
HeaderCalls ==
    {[fn |-> "detect_header_row", values |-> v, search_column_name |-> n,
      header_row_indices |-> h] :
        v \in SeqsUpTo(TopRows, MaxTopRows),
        n \in {None, ColumnALL, ColumnZlecenie},
        h \in {<<>>, <<0>>, <<0, 1>>, <<1, 0>>, <<2, 2>>, <<0, 7>>}}

InitHeader == IdleScan /\ fn_in \in HeaderCalls /\ fn_out = NoCall

Call_detect_header_row ==
    /\ pc = "idle"
    /\ fn_in.fn = "detect_header_row"
    /\ fn_out = NoCall
    /\ fn_out' = [fn |-> "detect_header_row",
                  result |-> detect_header_row(fn_in.values, fn_in.search_column_name,
                                               fn_in.header_row_indices)]
    /\ UNCHANGED <<scan_vars, fn_in>>

NextHeader == Call_detect_header_row
SpecHeader == InitHeader /\ [][NextHeader]_vars

\* the designated rows that exist, in the order listed
DesignatedRows ==
    SelectSeq(fn_in.header_row_indices, LAMBDA r : r >= 0 /\ r < Len(fn_in.values))
\* the trimmed non-empty texts of column c (0-based) in the designated rows
\* from position k of the list on
RECURSIVE HeaderParts(_, _)
HeaderParts(c, k) ==
    IF k > Len(DesignatedRows) THEN <<>>
    ELSE (IF py_strip(CellText(fn_in.values[DesignatedRows[k] + 1], c)) # <<>>
          THEN <<py_strip(CellText(fn_in.values[DesignatedRows[k] + 1], c))>> ELSE <<>>)
         \o HeaderParts(c, k + 1)
DesignatedWidths == {Len(fn_in.values[DesignatedRows[k] + 1]) : k \in DOMAIN DesignatedRows}

\* C17: given header_row_indices of which at least one row exists and is not
\* empty, detect_header_row returns a header with one entry per column up to
\* the widest designated row, each entry the normalize_header_name of the
\* trimmed non-empty cell texts of that column in the designated rows, joined
\* by a space in the order listed, and the data start below the lowest listed
\* row; when no designated row supplies a column the result is that of
\* auto-detection.
C17_ExplicitHeaderRows ==
    (fn_out.fn = "detect_header_row" /\ fn_in.header_row_indices # <<>>) =>
        IF \E w \in DesignatedWidths : w > 0
        THEN /\ fn_out.result.header_row_idx = fn_in.header_row_indices
             /\ \A w \in DesignatedWidths : w <= Len(fn_out.result.header_row)
             /\ Len(fn_out.result.header_row) \in DesignatedWidths
             /\ \A c \in DOMAIN fn_out.result.header_row :
                   fn_out.result.header_row[c] =
                      Str(normalize_header_name(Str(py_join(<<" ">>, HeaderParts(c - 1, 1)))))
             /\ \A k \in DOMAIN fn_in.header_row_indices :
                   fn_in.header_row_indices[k] < fn_out.result.start_data_row
             /\ \E k \in DOMAIN fn_in.header_row_indices :
                   fn_in.header_row_indices[k] + 1 = fn_out.result.start_data_row
        ELSE fn_out.result = detect_header_row(fn_in.values, fn_in.search_column_name, <<>>)

\* rows 1 and 0 were designated, in this order: the header joins the text of
\* row 1 with the text of row 0, a column that only the wider row has is kept,
\* and the data start at row 2
C17_Witness ==
    /\ fn_out.fn = "detect_header_row"
    /\ fn_in.header_row_indices = <<1, 0>>
    /\ Len(fn_in.values) >= 2
    /\ fn_in.values[1] = RowAbove /\ fn_in.values[2] = HeaderZlecenie
    /\ fn_out.result.header_row[1] = Str(<<"z","l","e","c","e","n","i","e"," ","2","0","2","4">>)
    /\ Len(fn_out.result.header_row) = 4
    /\ fn_out.result.start_data_row = 2

(***************************************************************************)
(* parse_header_rows.  header_rows_input is None or a text.                *)
(***************************************************************************)
\* s.split(','): the texts between the commas, empty ones included
RECURSIVE py_split_on(_, _)
py_split_on(s, sep) ==
    LET at == {i \in DOMAIN s : s[i] = sep}
    IN  IF at = {} THEN <<s>>
        ELSE <<SubSeq(s, 1, MinOf(at) - 1)>> \o py_split_on(SubSeq(s, MinOf(at) + 1, Len(s)), sep)

\* int(part) of a stripped text: [ok, n]; ok is FALSE for ValueError.  A sign,
\* then digits, single underscores allowed between two digits.
py_int(part) ==
    LET signed == part # <<>> /\ part[1] \in {"+", "-"}
        body == IF signed THEN Tail(part) ELSE part
        wellformed ==
            /\ body # <<>>
            /\ \A i \in DOMAIN body :
                  \/ IsDigit(body[i])
                  \/ /\ body[i] = "_" /\ i > 1 /\ i < Len(body)
                     /\ IsDigit(body[i - 1]) /\ IsDigit(body[i + 1])
        magnitude == NatOf(SelectSeq(body, IsDigit))
    IN  IF ~wellformed THEN [ok |-> FALSE, n |-> 0]
        ELSE [ok |-> TRUE, n |-> IF signed /\ part[1] = "-" THEN -magnitude ELSE magnitude]

\* Faulty variant of parse_header_rows: the row number 0 is taken as well.
parse_header_rows_accepting_zero(header_rows_input) ==
    IF header_rows_input.t = "none" THEN <<0>>
    ELSE IF py_strip(header_rows_input.s) = <<>> THEN <<0>>
    ELSE LET parts == py_split_on(header_rows_input.s, ",")
             kept == SelectSeq([k \in DOMAIN parts |-> py_int(py_strip(parts[k]))],
                               LAMBDA x : x.ok /\ x.n >= 0)
         IN  IF kept = <<>> THEN <<0>> ELSE [k \in DOMAIN kept |-> kept[k].n - 1]

parse_header_rows(header_rows_input) ==
    IF header_rows_input.t = "none" THEN <<0>>
    ELSE IF header_rows_input.s = <<>> \/ py_strip(header_rows_input.s) = <<>> THEN <<0>>
    ELSE LET parts == py_split_on(header_rows_input.s, ",")
             indices == SelectSeq([k \in DOMAIN parts |-> py_int(py_strip(parts[k]))],
                                  LAMBDA x : x.ok /\ x.n >= 1)
         IN  IF indices = <<>> THEN <<0>> ELSE [k \in DOMAIN indices |-> indices[k].n - 1]

\* ---- parse_header_rows ----
MaxInputLen == 4
InputChars == {"0", "1", "2", ",", " ", "-", "_", "x"}
HeaderRowInputs == {None} \cup {Str(s) : s \in SeqsUpTo(InputChars, MaxInputLen)}

InitParse == IdleScan /\ fn_in \in {[fn |-> "parse_header_rows", header_rows_input |-> v] :
                                        v \in HeaderRowInputs}
             /\ fn_out = NoCall

Call_parse_header_rows ==
    /\ pc = "idle"
    /\ fn_in.fn = "parse_header_rows"
    /\ fn_out = NoCall
    /\ fn_out' = [fn |-> "parse_header_rows",
                  indices |-> parse_header_rows(fn_in.header_rows_input)]
    /\ UNCHANGED <<scan_vars, fn_in>>

NextParse == Call_parse_header_rows
SpecParse == InitParse /\ [][NextParse]_vars

\* the comma-separated tokens of the input, trimmed
InputTokens ==
    IF fn_in.header_rows_input = None THEN <<>>
    ELSE LET parts == py_split_on(fn_in.header_rows_input.s, ",")
         IN  [k \in DOMAIN parts |-> py_strip(parts[k])]
\* the token is written as an integer: digits, possibly after a sign, possibly
\* with single underscores between digits
WrittenAsInteger(token) ==
    LET unsigned == IF token # <<>> /\ token[1] \in {"+", "-"} THEN Tail(token) ELSE token
    IN  /\ unsigned # <<>>
        /\ IsDigit(unsigned[1]) /\ IsDigit(unsigned[Len(unsigned)])
        /\ \A i \in DOMAIN unsigned : IsDigit(unsigned[i]) \/ unsigned[i] = "_"
        /\ \A i \in 1 .. Len(unsigned) - 1 : ~(unsigned[i] = "_" /\ unsigned[i + 1] = "_")
\* the integer a token written as an integer stands for
IntegerOf(token) ==
    IF token[1] = "-" THEN 0 - NatOf(SelectSeq(token, IsDigit))
    ELSE NatOf(SelectSeq(token, IsDigit))
\* n - 1 for the tokens from position k on that are written as an integer n
\* of at least 1
RECURSIVE SurvivingRows(_, _)
SurvivingRows(tokens, k) ==
    IF k > Len(tokens) THEN <<>>
    ELSE (IF WrittenAsInteger(tokens[k]) /\ IntegerOf(tokens[k]) >= 1
          THEN <<IntegerOf(tokens[k]) - 1>> ELSE <<>>)
         \o SurvivingRows(tokens, k + 1)

\* C18: parse_header_rows returns a non-empty list of non-negative integers:
\* n - 1 for each comma-separated token that, trimmed, reads as an integer
\* n >= 1, in the order of the input; empty, non-numeric, zero and negative
\* tokens are dropped; when no token is left, or the input is None, empty or
\* blank, the list is [0].
C18_HeaderRowParsing ==
    fn_out.fn = "parse_header_rows" =>
        /\ fn_out.indices # <<>>
        /\ \A k \in DOMAIN fn_out.indices : fn_out.indices[k] >= 0
        /\ fn_out.indices = (IF SurvivingRows(InputTokens, 1) = <<>> THEN <<0>>
                             ELSE SurvivingRows(InputTokens, 1))

\* the input "2, 0" was parsed: the row number 2 was kept, the 0 dropped
C18_Witness ==
    /\ fn_out.fn = "parse_header_rows"
    /\ fn_in.header_rows_input = Str(<<"2", ",", " ", "0">>)
    /\ fn_out.indices = <<1>>

\* ---- search_in_spreadsheet over sheets that lack the column ----
InitSkip ==
    /\ args \in SkipArgs
    /\ stop_event = FALSE
    /\ pc = "created"
    /\ spreadsheet_list = <<>>
    /\ ss_i = 1
    /\ sheets = 0
    /\ sh_i = 1
    /\ spreadsheet_name = NoName
    /\ frame = NoFrame
    /\ result = NoResult
    /\ yielded = <<>>
    /\ log = <<>>
    /\ stop_pc = "none"
    /\ window = <<>>
    /\ fn_in = NoCall
    /\ fn_out = NoCall

NextSkip ==
    \/ Pull
    \/ SetStop
    \/ S_start
    \/ S_meta
    \/ S_loop
    \/ H_start
    \/ H_fetch
    \/ H_row
    \/ H_cell

SpecSkip == InitSkip /\ [][NextSkip]_vars

\* the sheet of values answer k has no column to scan: the named column is
\* absent or each of its columns is ignored; without a column name, no header
\* names the order number or the one that does is ignored
Unresolvable(k) ==
    /\ log[k].op = "values" /\ log[k].ok /\ log[k].grid # <<>>
    /\ IF args.search_column_name # None
       THEN \A c \in DOMAIN log[k].header_row :
               \/ normalize_header_name(log[k].header_row[c])
                     # normalize_header_name(args.search_column_name)
               \/ matches_ignore_pattern(py_str(log[k].header_row[c]), args.ignore_patterns)
       ELSE \A c \in DOMAIN log[k].header_row :
               \/ \E b \in 1 .. c - 1 :
                     AnyVariantIn(ZLECENIE_HEADERS, normalize_header_name(log[k].header_row[b]))
               \/ ~AnyVariantIn(ZLECENIE_HEADERS, normalize_header_name(log[k].header_row[c]))
               \/ matches_ignore_pattern(py_str(log[k].header_row[c]), args.ignore_patterns)

\* C19: in search_in_spreadsheet a sheet whose target column is absent or
\* wholly ignored (or, without column name, whose order-number column is absent
\* or ignored) yields no record and raises nothing, and every later sheet is
\* still fetched and scanned: a scan that ends without being stopped has asked
\* for the values of every sheet and yielded the records of each.
C19_UnresolvableColumnIsSkip ==
    (args.mode = "spreadsheet" /\ ~BrokenRegex) =>
        /\ pc # "raised"
        /\ \A k \in DOMAIN log :
              Unresolvable(k) =>
                 /\ log[k].records = <<>>
                 /\ \A i \in DOMAIN yielded : yielded[i].unit # k
                 /\ (pc = "done" /\ ~stop_event) =>
                       /\ \A sh \in log[k].sh + 1 .. sheets :
                             \E j \in DOMAIN log :
                                j > k /\ log[j].op = "values" /\ log[j].sh = sh
                       /\ yielded = ExpectedRecords

\* the first sheet had no column to scan, the second sheet was scanned and its
\* record yielded
C19_Witness ==
    /\ args \in SkipArgs /\ pc = "done" /\ ~stop_event
    /\ \E k \in DOMAIN log : Unresolvable(k) /\ log[k].sh = 1
    /\ \E i \in DOMAIN yielded : log[yielded[i].unit].sh = 2


(***************************************************************************)
(* The search workers of the GUI: search_thread_func iterates              *)
(* search_in_spreadsheets, ss_search_thread_func iterates search_in_sheet  *)
(* or search_in_spreadsheet, each posting to the window what it receives.  *)
(* fn_in is the thread's call; the generator is the scan above; the stop   *)
(* button of the main loop sets the flag the thread handed to the scan.    *)
(***************************************************************************)
Posted(event, value) == [event |-> event, value |-> value]

\* the thread function left: its last post is a done event or the login error
WorkerReturned == window # <<>> /\ window[Len(window)].event # "RESULT"

WorkerCalls ==
    {[call |-> [fn |-> "search_thread_func", logged_in |-> l],
      args |-> CallArgs("all", q, None, <<>>, <<>>, FALSE, <<>>)] :
         l \in BOOLEAN, q \in {PlainQuery, BrokenQuery}}
    \cup {[call |-> [fn |-> "ss_search_thread_func", logged_in |-> l, all_sheets |-> FALSE],
           args |-> CallArgs("sheet", q, col, <<>>, <<>>, FALSE, <<>>)] :
              l \in BOOLEAN, q \in {PlainQuery, BrokenQuery}, col \in {ColumnALL, ColumnZlecenie}}
    \cup {[call |-> [fn |-> "ss_search_thread_func", logged_in |-> l, all_sheets |-> TRUE],
           args |-> CallArgs("spreadsheet", PlainQuery, col, <<>>, <<>>, FALSE, <<>>)] :
              l \in BOOLEAN, col \in {ColumnALL, ColumnZlecenie}}

\* the thread is started; the flag may still be set from an earlier search
InitWorker ==
    /\ \E c \in WorkerCalls : args = c.args /\ fn_in = c.call
    /\ stop_event \in BOOLEAN
    /\ pc = "idle"
    /\ spreadsheet_list = <<>>
    /\ ss_i = 1
    /\ sheets = 0
    /\ sh_i = 1
    /\ spreadsheet_name = NoName
    /\ frame = NoFrame
    /\ result = NoResult
    /\ yielded = <<>>
    /\ log = <<>>
    /\ stop_pc = "none"
    /\ fn_out = NoCall
    /\ window = <<>>

\* gui.py lines 229-242, 297-331: without services the thread posts an error
\* and returns; otherwise it clears the flag and creates the generator
W_start ==
    /\ pc = "idle" /\ window = <<>>
    /\ IF ~fn_in.logged_in
       THEN /\ window' = <<Posted("ERROR", "login")>>
            /\ UNCHANGED <<stop_event, pc>>
       ELSE /\ stop_event' = FALSE
            /\ pc' = "created"
            /\ UNCHANGED window
    /\ UNCHANGED <<args, spreadsheet_list, ss_i, sheets, sh_i, spreadsheet_name, frame, result,
                   yielded, log, stop_pc, fn_in, fn_out>>

\* `for result in results_gen`: next(results_gen) once the last record is dealt with
W_next ==
    /\ ~WorkerReturned
    /\ Len(window) = Len(yielded)
    /\ Pull

\* the stop button, enabled while the search runs (gui.py lines 952-953, 1167-1169)
W_stop ==
    /\ ~WorkerReturned
    /\ SetStop

\* gui.py lines 244-248, 333-337: the body of the loop for the record received
W_body ==
    /\ pc = "suspended" /\ Len(window) < Len(yielded)
    /\ window' = IF stop_event THEN Append(window, Posted("DONE", "stopped"))
                 ELSE Append(window, Posted("RESULT", yielded[Len(yielded)]))
    /\ UNCHANGED <<args, stop_event, pc, spreadsheet_list, ss_i, sheets, sh_i, spreadsheet_name,
                   frame, result, yielded, log, stop_pc, fn_in, fn_out>>

\* gui.py lines 250, 339: the generator is exhausted
W_completed ==
    /\ pc = "done" /\ ~WorkerReturned
    /\ window' = Append(window, Posted("DONE", "completed"))
    /\ UNCHANGED <<args, stop_event, pc, spreadsheet_list, ss_i, sheets, sh_i, spreadsheet_name,
                   frame, result, yielded, log, stop_pc, fn_in, fn_out>>

\* gui.py lines 252-254, 341-343: the generator raised
W_except ==
    /\ pc = "raised" /\ ~WorkerReturned
    /\ window' = window \o <<Posted("ERROR", "search"), Posted("DONE", "error")>>
    /\ UNCHANGED <<args, stop_event, pc, spreadsheet_list, ss_i, sheets, sh_i, spreadsheet_name,
                   frame, result, yielded, log, stop_pc, fn_in, fn_out>>

NextWorker ==
    \/ W_start
    \/ W_next
    \/ W_stop
    \/ W_body
    \/ W_completed
    \/ W_except
    \/ S_start
    \/ S_meta
    \/ S_loop
    \/ H_start
    \/ H_title
    \/ H_fetch
    \/ H_row
    \/ H_cell
    \/ L_list
    \/ L_file
    \/ L_meta
    \/ L_sheet
    \/ L_fetch
    \/ L_row
    \/ L_cell

SpecWorker == InitWorker /\ [][NextWorker]_vars

\* the positions of the done events and of the result events in the window
DoneEvents == {i \in DOMAIN window : window[i].event = "DONE"}
ResultEvents == {i \in DOMAIN window : window[i].event = "RESULT"}

\* C20: when the stop flag was set while the worker's scan was in progress and
\* the scan did not fail, the worker, once it has returned, has posted exactly
\* one done event, with the status "stopped", after every result event.
C20_StoppedIsReported ==
    (WorkerReturned /\ stop_pc # "none" /\ pc # "raised") =>
        /\ Cardinality(DoneEvents) = 1
        /\ \A i \in DoneEvents :
              /\ window[i].value = "stopped"
              /\ \A j \in ResultEvents : j < i

\* ---- detect_header_row, auto-detection ----
\* no listed row supplies a header: auto-detection decides
AutoDetection ==
    /\ fn_out.fn = "detect_header_row"
    /\ fn_in.values # <<>>
    /\ \A w \in DesignatedWidths : w = 0

NoTargetQuery ==
    fn_in.search_column_name = None \/ is_search_all_columns(fn_in.search_column_name)

\* some cell of the row names the order number
NamesOrderNumber(row) ==
    \E i \in DOMAIN row :
       row[i].t # "none" /\ AnyVariantIn(ZLECENIE_HEADERS, py_strip(py_lower(py_str(row[i]))))

TopRow(k) == IF Len(fn_in.values) > k THEN fn_in.values[k + 1] ELSE <<>>
HeaderInRow(k) == [header_row_idx |-> <<k>>, header_row |-> TopRow(k), start_data_row |-> k + 1]

\* C21 as stated: in auto-detection with the column query ALL or absent, a
\* row 0 that looks like a header is the header and the data start at row 1,
\* whatever row 1 holds.
C21_AutoHeaderForAll ==
    (AutoDetection /\ NoTargetQuery /\ is_likely_header_row(TopRow(0))) =>
        fn_out.result = HeaderInRow(0)

\* C21, amended: in auto-detection with the column query ALL or absent, a
\* row 0 that looks like a header is the header, with the data from row 1 on,
\* unless row 0 names no order number while row 1 looks like a header and
\* names one; then row 1 is the header and the data start at row 2.
C21_AutoHeaderForAllUnlessOrderNumberBelow ==
    (AutoDetection /\ NoTargetQuery /\ is_likely_header_row(TopRow(0))) =>
        fn_out.result =
            (IF /\ ~NamesOrderNumber(TopRow(0))
                /\ is_likely_header_row(TopRow(1)) /\ NamesOrderNumber(TopRow(1))
             THEN HeaderInRow(1) ELSE HeaderInRow(0))

\* the query is ALL, row 0 holds two texts that name no order number and
\* row 1 is a header with 'Zlecenie': row 1 was returned as header
C21_Witness ==
    /\ AutoDetection /\ fn_in.search_column_name = ColumnALL
    /\ Len(fn_in.values) = 3
    /\ fn_in.values[1] = HeaderOther /\ fn_in.values[2] = HeaderZlecenie
    /\ fn_out.result.start_data_row = 2

\* the column query names a column
NamedTargetQuery == fn_in.search_column_name # None /\ ~NoTargetQuery

\* some cell of the row is the column looked for
HasTargetColumn(row) ==
    \E i \in DOMAIN row :
       /\ row[i].t # "none"
       /\ normalize_header_name(row[i]) = normalize_header_name(fn_in.search_column_name)

\* C22 as stated: in auto-detection with a named target column, when row 0
\* is not the header (it does not look like one, or lacks the target column)
\* and row 1 looks like a header, row 1 is the header and the data start at
\* row 2, whether or not row 1 holds the target column.
C22_SecondRowHeader ==
    (/\ AutoDetection /\ NamedTargetQuery
     /\ ~(is_likely_header_row(TopRow(0)) /\ HasTargetColumn(TopRow(0)))
     /\ is_likely_header_row(TopRow(1))) =>
        fn_out.result = HeaderInRow(1)

\* C22, amended: in auto-detection with a named target column and a row 1
\* that looks like a header, row 1 is the header (data from row 2) when row 0
\* does not look like a header, whether or not row 1 holds the target column,
\* and when row 0 looks like a header without the target column while row 1
\* holds it; when both rows look like headers and neither holds the target
\* column, row 0 is the header and row 1 is the first data row.
C22_SecondRowHeaderUnlessFirstLooksLikeOne ==
    (/\ AutoDetection /\ NamedTargetQuery
     /\ ~(is_likely_header_row(TopRow(0)) /\ HasTargetColumn(TopRow(0)))
     /\ is_likely_header_row(TopRow(1))) =>
        fn_out.result =
            (IF is_likely_header_row(TopRow(0)) /\ ~HasTargetColumn(TopRow(1))
             THEN HeaderInRow(0) ELSE HeaderInRow(1))

\* 'Zlecenie' is looked for, row 0 holds numbers only and row 1 is a header
\* without a column 'Zlecenie': row 1 was returned as header
C22_Witness ==
    /\ AutoDetection /\ fn_in.search_column_name = ColumnZlecenie
    /\ Len(fn_in.values) = 3
    /\ fn_in.values[1] = RowAbove /\ fn_in.values[2] = HeaderNumer
    /\ ~HasTargetColumn(fn_in.values[2])
    /\ fn_out.result = HeaderInRow(1)

(***************************************************************************)
(* extract_numeric_tokens called on its own.  text is None or a text.      *)
(***************************************************************************)
MaxTokenText == 5
TokenChars == {"0", "7", ".", ",", "x"}
TokenTexts == {None} \cup {Str(s) : s \in SeqsUpTo(TokenChars, MaxTokenText)}

InitTokens == IdleScan /\ fn_in \in {[fn |-> "extract_numeric_tokens", text |-> t] : t \in TokenTexts}
                       /\ fn_out = NoCall

\* `if not text: return []`, else the matches in str(text)
Call_extract_numeric_tokens ==
    /\ pc = "idle"
    /\ fn_in.fn = "extract_numeric_tokens"
    /\ fn_out = NoCall
    /\ fn_out' = [fn |-> "extract_numeric_tokens",
                  tokens |-> IF fn_in.text = None THEN <<>>
                             ELSE extract_numeric_tokens(py_str(fn_in.text))]
    /\ UNCHANGED <<scan_vars, fn_in>>

NextTokens == Call_extract_numeric_tokens
SpecTokens == InitTokens /\ [][NextTokens]_vars

\* the text handed in (empty for None)
TokenText == IF fn_in.text = None THEN <<>> ELSE py_str(fn_in.text)
\* the positions where a maximal run of digits of the text starts, and ends
RunStarts == {i \in DOMAIN TokenText :
                IsDigit(TokenText[i]) /\ (i = 1 \/ ~IsDigit(TokenText[i - 1]))}
RunEnds == {i \in DOMAIN TokenText :
              IsDigit(TokenText[i]) /\ (i = Len(TokenText) \/ ~IsDigit(TokenText[i + 1]))}
\* the k-th run, from left to right
RunFrom(k) == CHOOSE i \in RunStarts : Cardinality({j \in RunStarts : j < i}) = k - 1
RunTo(k) == CHOOSE i \in RunEnds : Cardinality({j \in RunEnds : j < i}) = k - 1

\* a run of digits without its leading zeros; a run of zeros is "0"
RECURSIVE StripLeadingZeros(_)
StripLeadingZeros(run) ==
    IF Len(run) > 1 /\ run[1] = "0" THEN StripLeadingZeros(Tail(run)) ELSE run

\* C23 as stated: the tokens are, from left to right, the maximal runs of
\* digits of the text, each without its leading zeros; a '.' or ',' between
\* digits separates two tokens; None and the empty text give no token.
C23_NumericTokens ==
    fn_out.fn = "extract_numeric_tokens" =>
        fn_out.tokens = [k \in 1 .. Cardinality(RunStarts) |->
                            StripLeadingZeros(SubSeq(TokenText, RunFrom(k), RunTo(k)))]

\* the tokens from the k-th run on: a run followed by one '.' or ',' and
\* then the next run forms one token with it
RECURSIVE DecimalTokens(_)
DecimalTokens(k) ==
    IF k > Cardinality(RunStarts) THEN <<>>
    ELSE IF /\ k < Cardinality(RunStarts)
            /\ RunFrom(k + 1) = RunTo(k) + 2
            /\ TokenText[RunTo(k) + 1] \in {".", ","}
    THEN <<SubSeq(TokenText, RunFrom(k), RunTo(k + 1))>> \o DecimalTokens(k + 2)
    ELSE <<SubSeq(TokenText, RunFrom(k), RunTo(k))>> \o DecimalTokens(k + 1)

\* C23, amended: the tokens are, from left to right, the maximal runs of
\* digits of the text as written, leading zeros kept, where a run followed
\* by a single '.' or ',' and a further run is one token together with that
\* separator and run (such a run is not paired again); None and the empty
\* text give no token.
C23_NumericTokensWithDecimals ==
    fn_out.fn = "extract_numeric_tokens" => fn_out.tokens = DecimalTokens(1)

\* "07.0,": the two runs and the dot between them are one token, the zeros
\* kept; the comma at the end belongs to no token
C23_Witness ==
    /\ fn_out.fn = "extract_numeric_tokens"
    /\ fn_in.text = Str(<<"0", "7", ".", "0", ",">>)
    /\ fn_out.tokens = << <<"0", "7", ".", "0">> >>

\* ---- the records of search_in_sheet ----
\* what detect_header_row and the column resolution give for the call
SheetStartRow ==
    detect_header_row(fn_in.grid, fn_in.a.search_column_name,
                      fn_in.a.header_row_indices).start_data_row
SheetTargetColumns ==
    resolve_sheet(fn_in.grid, fn_in.a.search_column_name, fn_in.a.ignore_patterns,
                  fn_in.a.header_row_indices).target_col_indices

\* rec reports position (r, c) of the grid, 0-based
ReportsPosition(rec, r, c) ==
    /\ rec.cell = cell_address(r, c)
    /\ rec.searchedValue = CellText(fn_in.grid[r + 1], c)

\* C24: every record of search_in_sheet carries the A1 address and the text
\* of a position (r, c) of the grid with r at or below the first data row
\* that detect_header_row returned, c within the row and, unless every column
\* is searched, c one of the resolved target columns; no two records of one
\* scan carry the same address.
C24_RecordWellFormedness ==
    fn_out.fn = "search_in_sheet" =>
        /\ \A i \in DOMAIN fn_out.records :
              \E r \in SheetStartRow .. Len(fn_in.grid) - 1 :
                 \E c \in 0 .. Len(fn_in.grid[r + 1]) - 1 :
                    /\ ReportsPosition(fn_out.records[i], r, c)
                    /\ ~is_search_all_columns(fn_in.a.search_column_name) =>
                          \E k \in DOMAIN SheetTargetColumns : SheetTargetColumns[k] = c
        /\ \A i, j \in DOMAIN fn_out.records :
              i # j => fn_out.records[i].cell # fn_out.records[j].cell

\* rows 0 and 1 are designated header rows and row 1 holds the number looked
\* for: only the cell of row 2, A3, was reported
C24_Witness ==
    /\ fn_out.fn = "search_in_sheet"
    /\ fn_in.a.header_row_indices = <<0, 1>>
    /\ fn_in.a.search_column_name = ColumnALL /\ fn_in.a.ignore_patterns = <<>>
    /\ fn_in.grid = <<HeaderNumer, RowPlain, RowPlain>>
    /\ SheetStartRow = 2
    /\ Len(fn_out.records) = 1
    /\ fn_out.records[1].cell = <<"A", "3">>

\* ---- search_in_spreadsheet, request by request ----
LazyArgs ==
    {CallArgs("spreadsheet", PlainQuery, col, <<>>, <<>>, FALSE, <<>>) :
        col \in {ColumnALL, ColumnZlecenie}}

InitLazy ==
    /\ args \in LazyArgs
    /\ stop_event = FALSE
    /\ pc = "created"
    /\ spreadsheet_list = <<>>
    /\ ss_i = 1
    /\ sheets = 0
    /\ sh_i = 1
    /\ spreadsheet_name = NoName
    /\ frame = NoFrame
    /\ result = NoResult
    /\ yielded = <<>>
    /\ log = <<>>
    /\ stop_pc = "none"
    /\ window = <<>>
    /\ fn_in = NoCall
    /\ fn_out = NoCall

NextLazy ==
    \/ Pull
    \/ SetStop
    \/ S_start
    \/ S_meta
    \/ S_loop
    \/ H_start
    \/ H_fetch
    \/ H_row
    \/ H_cell

SpecLazy == InitLazy /\ [][NextLazy]_vars

\* the requests of the log by kind
MetaRequests == {k \in DOMAIN log : log[k].op = "meta"}
ValuesRequests == {k \in DOMAIN log : log[k].op = "values"}
\* the records handed to the caller that came from values answer k
YieldedOf(k) == SelectSeq(yielded, LAMBDA rec : rec.unit = k)

\* C25: one invocation of search_in_spreadsheet asks for the metadata once,
\* before anything else and for nothing but metadata and values; it asks for
\* the values of a sheet at most once, sheet after sheet in the order listed;
\* and when the values of a further sheet are asked for, the caller has
\* received every record of each sheet asked for before.
C25_OneLazyFetchPerSheet ==
    args.mode = "spreadsheet" =>
        /\ MetaRequests \subseteq {1}
        /\ DOMAIN log = MetaRequests \cup ValuesRequests
        /\ \A i, j \in ValuesRequests :
              i < j => /\ log[i].sh < log[j].sh
                       /\ YieldedOf(i) = log[i].records
        /\ \A k \in ValuesRequests : log[k].sh \in 1 .. sheets

\* both sheets were asked for, in order, and the records of the first sheet,
\* more than one, were with the caller when the second request went out
C25_Witness ==
    /\ args \in LazyArgs
    /\ \E i, j \in ValuesRequests :
          /\ log[i].sh = 1 /\ log[j].sh = 2
          /\ Len(log[i].records) >= 2
          /\ YieldedOf(i) = log[i].records
          /\ YieldedOf(j) = <<>>
    /\ pc = "H_row"

(***************************************************************************)
(* search_in_sheet, search_in_spreadsheet and search_across_spreadsheets   *)
(* pulled again and again.                                                 *)
(***************************************************************************)
InitPulled ==
    /\ args \in SheetArgs \cup SpreadsheetArgs \cup AcrossArgs
    /\ stop_event = FALSE
    /\ pc = "created"
    /\ spreadsheet_list = <<>>
    /\ ss_i = 1
    /\ sheets = 0
    /\ sh_i = 1
    /\ spreadsheet_name = NoName
    /\ frame = NoFrame
    /\ result = NoResult
    /\ yielded = <<>>
    /\ log = <<>>
    /\ stop_pc = "none"
    /\ window = <<>>
    /\ fn_in = NoCall
    /\ fn_out = NoCall

\* one step of the body of a generator
BodyStep ==
    \/ A_start
    \/ A_list
    \/ A_loop
    \/ A_result
    \/ S_start
    \/ S_meta
    \/ S_loop
    \/ H_start
    \/ H_title
    \/ H_fetch
    \/ H_row
    \/ H_cell

NextPulled ==
    \/ Pull
    \/ SetStop
    \/ BodyStep

SpecPulled == InitPulled /\ [][NextPulled]_vars

\* how far the scan has come: whether the generator has ended, the requests
\* made, the positions of the loops over spreadsheets, sheets, rows and
\* columns, the records handed over and the place in the body, compared from
\* left to right
PcOrder ==
    <<"created", "A_start", "A_list", "A_loop", "S_start", "S_meta", "S_loop", "H_start",
      "H_title", "H_fetch", "H_row", "H_cell", "A_result", "suspended", "done", "raised">>
PcRank(c) == CHOOSE n \in DOMAIN PcOrder : PcOrder[n] = c
ScanPosition ==
    <<IF pc \in {"done", "raised"} THEN 1 ELSE 0,
      Len(log), ss_i, sh_i, frame.r_idx, frame.k, Len(yielded), PcRank(pc)>>
LexLess(a, b) ==
    \E n \in DOMAIN a : a[n] < b[n] /\ \A m \in 1 .. n - 1 : a[m] = b[m]

\* C26: search_in_sheet, search_in_spreadsheet and search_across_spreadsheets,
\* pulled again and again, reach exhaustion after finitely many pulls,
\* whatever the collaborators answer and whether or not the stop_event is set:
\* a generator never ends by raising, every pull and every step of the body
\* moves the scan strictly forward (no row and no sheet is visited again),
\* and no sheet is asked for twice.
C26_Termination ==
    /\ [](pc # "raised")
    /\ [][stop_event' = stop_event => LexLess(ScanPosition, ScanPosition')]_vars
    /\ [](\A i, j \in DOMAIN log :
             (i < j /\ log[i].op = "values" /\ log[j].op = "values") =>
                 <<log[i].ss, log[i].sh>> # <<log[j].ss, log[j].sh>>)


\* C27: matches_ignore_pattern and matches_ignore_value are one matcher: the
\* candidate is only trimmed and lowercased, so both return the same answer
\* for every candidate and every pattern list; the pattern '*_old' matches the
\* candidate 'x_old' under both.
C27_OneMatcher ==
    IgnoreCalled =>
        /\ fn_out.pattern = fn_out.value
        /\ (/\ fn_in.candidate = <<"x","_","o","l","d">>
            /\ \E k \in DOMAIN fn_in.ignore_patterns :
                   fn_in.ignore_patterns[k] = <<"*","_","o","l","d">>)
              => (fn_out.pattern /\ fn_out.value)


\* ---- check_match step by step, regex on and off ----
StepQueries ==
    MatchQueries \cup {<<"^","3","8">>, <<"9",".","0">>, <<"1",".","5">>, <<"7">>,
                       <<"1",",","5">>, <<"0","0","7">>}
StepCells == MatchCells \cup {<<"w","w","w",".","b","/","0","0","7",",","5",".","1">>}
StepCalls ==
    {[fn |-> "check_match_steps", q |-> q, c |-> c, regex |-> r, case_sensitive |-> cs] :
        q \in StepQueries, c \in StepCells, r \in BOOLEAN, cs \in BOOLEAN}

InitSteps == IdleScan /\ fn_in \in StepCalls /\ fn_out = NoCall

\* check_match on one cell, with what each of its steps finds on its own and
\* with what the steps 1 to 3 find together
Call_check_match_steps ==
    /\ pc = "idle"
    /\ fn_in.fn = "check_match_steps"
    /\ fn_out = NoCall
    /\ fn_out' = [fn |-> "check_match_steps",
                  v |-> check_match(fn_in.c, fn_in.q, fn_in.regex, fn_in.case_sensitive),
                  direct |-> direct_match(fn_in.c, fn_in.q, fn_in.regex, fn_in.case_sensitive),
                  numeric |-> numeric_match(fn_in.c, fn_in.q),
                  url_token |-> url_token_match(fn_in.c, fn_in.q)]
    /\ UNCHANGED <<scan_vars, fn_in>>

NextSteps == Call_check_match_steps
SpecSteps == InitSteps /\ [][NextSteps]_vars

StepsCalled == fn_out.fn = "check_match_steps"

\* C28: the URL/token step never decides a match: whenever step 4 of
\* check_match finds the normalized query in a numeric token of a cell with a
\* URL, step 3 finds it in the normalized whole cell; check_match answers as
\* the steps 1 to 3 alone do, on every query and cell, regex on or off.
C28_UrlStepNeverDecides ==
    StepsCalled =>
        /\ fn_out.url_token => fn_out.numeric
        /\ fn_out.v <=> (fn_out.direct \/ fn_out.numeric)

\* the query '38 960' is not in the cell 'https://x.com/order/38960' as
\* written; the token 38960 of the URL holds the normalized query, and so does
\* the normalized cell
C28_Witness ==
    /\ StepsCalled
    /\ fn_in.c = UrlCell
    /\ fn_in.q = <<"3","8"," ","9","6","0">>
    /\ ~fn_out.direct
    /\ fn_out.url_token /\ fn_out.numeric /\ fn_out.v


\* ---- search_in_sheet and search_in_spreadsheets with a regular expression ----
RegexPatterns == {<<"^","3","8">>, <<"X",".","C","O","M">>, <<"9",".","0">>}
RegexCalls ==
    {[fn |-> "search_regex", grid |-> g,
      a |-> [CallArgs("sheet", [pattern |-> q, regex |-> TRUE], col, <<>>, <<>>, FALSE, <<>>)
                EXCEPT !.case_sensitive = cs]] :
        g \in SheetGrids, q \in RegexPatterns, col \in {None, ColumnALL, ColumnZlecenie},
        cs \in BOOLEAN}

InitRegex == IdleScan /\ fn_in \in RegexCalls /\ fn_out = NoCall

\* the records of search_in_sheet and of search_in_spreadsheets for one values
\* answer, each scan run to its end
Call_search_regex ==
    /\ pc = "idle"
    /\ fn_in.fn = "search_regex"
    /\ fn_out = NoCall
    /\ \E ans \in {[ok |-> TRUE, grid |-> fn_in.grid]},
          rs \in {resolve_sheet(fn_in.grid, fn_in.a.search_column_name,
                                fn_in.a.ignore_patterns, fn_in.a.header_row_indices)} :
          fn_out' = [fn |-> "search_regex",
                     records |-> ResolvedRecords(ThisUnit, ans, rs, fn_in.a),
                     legacy |-> LegacyRecords(ThisUnit, ans,
                                              [fn_in.a EXCEPT !.mode = "all",
                                                              !.search_column_name = None])]
    /\ UNCHANGED <<scan_vars, fn_in>>

NextRegex == Call_search_regex
SpecRegex == InitRegex /\ [][NextRegex]_vars

RegexCalled == fn_out.fn = "search_regex"
\* the compiled expression finds a match in the text
RegexFinds(text) == re_search(fn_in.a.pattern, ~fn_in.a.case_sensitive, text)
\* the pattern and the text hold a digit and the normalized pattern stands in
\* the normalized text
NumericallyFinds(text) ==
    /\ HasDigit(fn_in.a.pattern)
    /\ HasDigit(text)
    /\ normalize_number_string(Str(fn_in.a.pattern)) # <<>>
    /\ py_in(normalize_number_string(Str(fn_in.a.pattern)), normalize_number_string(Str(text)))

\* C29 (as stated): with regex on and a pattern that compiles, every record of
\* search_in_sheet and of search_in_spreadsheets has a searchedValue / value in
\* which the compiled expression finds a match, under the chosen case
\* sensitivity.
C29_RegexModeOnlyRegexMatches ==
    RegexCalled =>
        /\ \A k \in DOMAIN fn_out.records : RegexFinds(fn_out.records[k].searchedValue)
        /\ \A k \in DOMAIN fn_out.legacy : RegexFinds(fn_out.legacy[k].value)

\* C29 (amended): every such record has a value in which the compiled
\* expression finds a match or, when the pattern holds a digit, a value with a
\* digit whose normalized form holds the normalized pattern.
C29_RegexModeRegexOrNumericMatches ==
    RegexCalled =>
        /\ \A k \in DOMAIN fn_out.records :
              \/ RegexFinds(fn_out.records[k].searchedValue)
              \/ NumericallyFinds(fn_out.records[k].searchedValue)
        /\ \A k \in DOMAIN fn_out.legacy :
              \/ RegexFinds(fn_out.legacy[k].value)
              \/ NumericallyFinds(fn_out.legacy[k].value)

\* '^38' does not match 138960, and both scans report the cell beside one the
\* expression does match
C29_Witness ==
    /\ RegexCalled
    /\ fn_in.a.pattern = <<"^","3","8">>
    /\ \E i, j \in DOMAIN fn_out.records :
          /\ fn_out.records[i].searchedValue = <<"1","3","8","9","6","0">>
          /\ ~RegexFinds(fn_out.records[i].searchedValue)
          /\ RegexFinds(fn_out.records[j].searchedValue)
    /\ \E i \in DOMAIN fn_out.legacy :
          /\ fn_out.legacy[i].value = <<"1","3","8","9","6","0">>
          /\ ~RegexFinds(fn_out.legacy[i].value)


\* ---- the stop button and the flag the worker clears ----
\* gui.py lines 933-954, 1167-1169: the start handler enables the stop button
\* and starts the thread; the stop handler may run before the thread has
\* reached its flag.clear()
W_stop_before_clear ==
    /\ pc = "idle" /\ window = <<>>
    /\ stop_pc = "none"
    /\ stop_event' = TRUE
    /\ stop_pc' = "idle"
    /\ UNCHANGED <<args, pc, spreadsheet_list, ss_i, sheets, sh_i, spreadsheet_name,
                   frame, result, yielded, log, fn_in, fn_out, window>>

NextStop ==
    \/ W_stop_before_clear
    \/ W_start
    \/ W_next
    \/ W_stop
    \/ W_body
    \/ W_completed
    \/ W_except
    \/ S_start
    \/ S_meta
    \/ S_loop
    \/ H_start
    \/ H_title
    \/ H_fetch
    \/ H_row
    \/ H_cell
    \/ L_list
    \/ L_file
    \/ L_meta
    \/ L_sheet
    \/ L_fetch
    \/ L_row
    \/ L_cell

SpecStop == InitWorker /\ [][NextStop]_vars

\* C30: a stop request is never lost: once the stop button was pressed after
\* the start of the search, the flag it set stays set (it is not cleared
\* before the worker has seen it), and a search stopped before its scan began
\* returns without having fetched the values of any sheet.
C30_StopNeverLost ==
    /\ stop_pc # "none" => stop_event
    /\ (stop_pc = "idle" /\ WorkerReturned) =>
          \A i \in DOMAIN log : log[i].op # "values"

=============================================================================
